---------------------------- MODULE Spec2Model ----------------------------
(***************************************************************************)
(* ContextChef: the compaction controller (Janitor) and the part of the    *)
(* pipeline orchestrator (ContextChef) that drives it.                     *)
(*                                                                         *)
(* Janitor      : src/unnamed/part_013, lines 473-656                      *)
(* ContextChef  : src/unnamed/part_015                                     *)
(* TokenUtils   : src/src/utils/TokenUtils.ts                              *)
(* Prompts      : src/src/prompts.ts                                       *)
(*                                                                         *)
(* Indices are 0-based as in the source: a split index s means that        *)
(* history.slice(0, s) is compressed and history.slice(s) is kept.         *)
(***************************************************************************)
EXTENDS Integers, Sequences, FiniteSets, TLC

----------------------------------------------------------------------------
(* Bounds of the model *)

\* longest history the caller builds from its own messages
MaxLen == 3

----------------------------------------------------------------------------
(* Values *)

\* null (a missing config option, the cleared hint, "no split index")
Null == -1

Max(a, b) == IF a >= b THEN a ELSE b

\* A message of the IR.  The content is kept symbolically:
\*   kind "text"        : text written by the caller (or the model), id names it
\*   kind "model"       : the text returned by the compressionModel
\*   kind "fallback"    : Prompts.getFallbackCompressionSummary(n), with the
\*                        "(Compression failed: ...)" suffix when failed
\*   kind "instruction" : Prompts.CONTEXT_COMPACTION_INSTRUCTION
Msg(role, kind, id, n, failed) ==
  [role |-> role, kind |-> kind, id |-> id, n |-> n, failed |-> failed]

NoMsg == Msg("none", "none", 0, 0, FALSE)

TextMsg(role, id) == Msg(role, "text", id, 0, FALSE)

\* the messages the caller puts into its history
\*   1: user, "Message 1"       2: assistant, 20 CJK characters
Pool == {TextMsg("user", 1), TextMsg("assistant", 2)}

RECURSIVE SeqsUpTo(_, _)
SeqsUpTo(S, n) ==
  IF n = 0 THEN {<<>>}
  ELSE LET shorter == SeqsUpTo(S, n - 1)
       IN  shorter \cup {Append(s, x) : s \in {t \in shorter : Len(t) = n - 1}, x \in S}

Histories == SeqsUpTo(Pool, MaxLen)

\* token counts the caller may feed after a provider response
Hints == {10, 50}

----------------------------------------------------------------------------
(* TokenUtils and JSON.stringify, on lengths *)

\* number of non-CJK characters of a content once JSON-escaped
ContentChars(m) ==
  CASE m.kind = "text"        -> IF m.id = 2 THEN 0 ELSE 9
    [] m.kind = "model"       -> 47
    [] m.kind = "fallback"    -> IF m.failed THEN 227 ELSE 192
    [] m.kind = "instruction" -> 1200
    [] OTHER                  -> 0

\* number of CJK characters of a content
ContentCjk(m) == IF m.kind = "text" /\ m.id = 2 THEN 20 ELSE 0

RoleChars(role) ==
  CASE role = "system"    -> 6
    [] role = "user"      -> 4
    [] role = "assistant" -> 9
    [] role = "tool"      -> 4
    [] OTHER              -> 0

\* JSON.stringify({role, content}): {"role":"<role>","content":"<content>"}
JsonOther(m) == 24 + RoleChars(m.role) + ContentChars(m)

RECURSIVE SumOver(_, _)
SumOver(F(_), s) == IF s = <<>> THEN 0 ELSE F(Head(s)) + SumOver(F, Tail(s))

\* JSON.stringify(messages): brackets, the messages, the commas between them
StringifyOther(messages) ==
  2 + SumOver(JsonOther, messages)
    + (IF Len(messages) > 1 THEN Len(messages) - 1 ELSE 0)

StringifyCjk(messages) == SumOver(ContentCjk, messages)

\* TokenUtils.estimate: Math.ceil(cjkCount * 1.5 + otherCount * 0.3)
estimate(cjkCount, otherCount) ==
  IF cjkCount + otherCount = 0 THEN 0
  ELSE (15 * cjkCount + 3 * otherCount + 9) \div 10

\* TokenUtils.estimateObject on an array of messages
estimateObject(messages) ==
  estimate(StringifyCjk(messages), StringifyOther(messages))

\* a caller-supplied tokenizer: 10 tokens for each message of the caller,
\* 5 for a summary (tokenizer: (messages) => messages.reduce(...))
CustomWeight(m) == IF m.kind = "text" THEN 10 ELSE 5

customTokenizer(messages) == SumOver(CustomWeight, messages)

----------------------------------------------------------------------------
(* Configurations (JanitorConfig); 0 is "not set" for the two limits, as   *)
(* the code tests them for truthiness; Null is "not set" for the others.   *)

TokenConfigs ==
  [maxHistoryTokens : {25}, preserveRecentTokens : {Null, 5, 25, 60},
   maxHistoryLimit : {0}, preserveRecentCount : {Null},
   tokenizer : {"heuristic", "custom"},
   compressionModel : BOOLEAN, onCompress : BOOLEAN]

CountConfigs ==
  [maxHistoryTokens : {0}, preserveRecentTokens : {Null},
   maxHistoryLimit : {2}, preserveRecentCount : {Null, 0, 2, 5},
   tokenizer : {"heuristic"},
   compressionModel : BOOLEAN, onCompress : BOOLEAN]

NoLimitConfigs ==
  [maxHistoryTokens : {0}, preserveRecentTokens : {Null},
   maxHistoryLimit : {0}, preserveRecentCount : {Null},
   tokenizer : {"heuristic"},
   compressionModel : {TRUE}, onCompress : {TRUE}]

Configs == TokenConfigs \cup CountConfigs \cup NoLimitConfigs

----------------------------------------------------------------------------
(* State *)

\* the execution contexts that may call compile()
Callers == {1, 2}

\* compile(options) targets; "other" is any string getAdapter does not know
Targets == {"openai", "anthropic", "gemini", "other"}

VARIABLES
  config,             \* JanitorConfig handed to the constructor
  externalTokenUsage, \* Janitor._externalTokenUsage
  suppressNext,       \* Janitor._suppressNextCompression
  topLayer,           \* ContextChef.topLayer
  rollingHistory,     \* ContextChef.rollingHistory
  dynamicState,       \* ContextChef.dynamicState
  dynamicStatePlacement, \* ContextChef.dynamicStatePlacement
  rawDynamicXml,      \* ContextChef.rawDynamicXml
  call,               \* per caller: position and locals of its compile call
  last,               \* what the compile call that just returned handed back
  chain,              \* where the last compress call stands after a compaction
  hintStale,          \* the held hint was fed before a compress call began
  chefConfig,         \* ChefConfig: onBeforeCompile, transformContext, memoryStore
  pruner,             \* Pruner: flatTools, namespaces, lazyToolkits
  pipe,               \* per caller: the locals of compile() after the compaction
  applied,            \* a module function applied on its own: arguments, result
  snap,               \* the ChefSnapshot the caller holds
  cleared             \* no token usage was fed since clearRollingHistory

layers == <<topLayer, dynamicState, dynamicStatePlacement, rawDynamicXml>>

\* the state the compaction controller and its callers leave alone
rest == <<chefConfig, pruner, pipe, applied, snap, cleared>>

vars == <<config, externalTokenUsage, suppressNext, rollingHistory, layers,
          call, last, chain, hintStale, rest>>

\* no ChefSnapshot was taken yet
NoSnap ==
  [taken |-> FALSE, topLayer |-> <<>>, rollingHistory |-> <<>>,
   dynamicState |-> <<>>, dynamicStatePlacement |-> "last_user",
   rawDynamicXml |-> "", janitor |-> [usage |-> Null, suppress |-> FALSE]]

\* ChefConfig of new ContextChef(): no hook, no transform, no memory store
NoHooks ==
  [onBeforeCompile |-> FALSE, transformContext |-> FALSE,
   memoryStore |-> "none"]

\* new Pruner(): nothing registered
NoTools == [flatTools |-> <<>>, namespaces |-> <<>>, lazyToolkits |-> <<>>]

\* compile() has not got past janitor.compress
IdlePipe == [pc |-> "idle"]

\* no function applied
NotApplied == [fn |-> "none"]

----------------------------------------------------------------------------
(* Janitor *)

\* Janitor.getTokenCount
getTokenCount(messages) ==
  IF config.tokenizer = "custom" THEN customTokenizer(messages)
  ELSE estimateObject(messages)

\* E9: Math.max(localEstimate, this._externalTokenUsage ?? 0)
TotalTokensLocalOnly(history, usage) == getTokenCount(history)

TotalTokens(history, usage) ==
  Max(getTokenCount(history), IF usage = Null THEN 0 ELSE usage)

\* preserveRecentTokens ?? Math.floor(maxHistoryTokens * 0.7); the double
\* product floors to the same integer as 7 * max / 10 for every max below 90
PreserveTarget ==
  IF config.preserveRecentTokens # Null THEN config.preserveRecentTokens
  ELSE (7 * config.maxHistoryTokens) \div 10

\* the backward loop: i is the 0-based index of the message looked at
RECURSIVE WalkBack(_, _, _, _)
WalkBack(history, i, accumulatedTokens, splitIndex) ==
  IF i < 0 THEN splitIndex
  ELSE LET msgTokens == getTokenCount(<<history[i + 1]>>)
       IN  IF accumulatedTokens + msgTokens > PreserveTarget THEN splitIndex
           ELSE WalkBack(history, i - 1, accumulatedTokens + msgTokens, i)

TokenSplitNoForce(history) ==
  LET splitIndex == WalkBack(history, Len(history) - 1, 0, Len(history))
  IN  IF splitIndex > 0 THEN splitIndex ELSE Null

\* the split index of token mode once the total is over maxHistoryTokens
TokenSplit(history) ==
  LET walked == WalkBack(history, Len(history) - 1, 0, Len(history))
      splitIndex == IF walked = Len(history) /\ Len(history) > 0
                    THEN Len(history) - 1 ELSE walked
  IN  IF splitIndex > 0 THEN splitIndex ELSE Null

\* preserveRecentCount ?? Math.floor(limit * 0.7)
PreserveCount ==
  IF config.preserveRecentCount # Null THEN config.preserveRecentCount
  ELSE (7 * config.maxHistoryLimit) \div 10

CountSplitFromLimit(history) ==
  LET limit == config.maxHistoryLimit
  IN  IF limit # 0 /\ Len(history) > limit
      THEN LET splitIndex == Max(0, Len(history) - limit)
           IN  IF splitIndex > 0 THEN splitIndex ELSE Null
      ELSE Null

\* the split index of count mode
CountSplit(history) ==
  LET limit == config.maxHistoryLimit
  IN  IF limit # 0 /\ Len(history) > limit
      THEN LET splitIndex == Max(0, Len(history) - PreserveCount)
           IN  IF splitIndex > 0 THEN splitIndex ELSE Null
      ELSE Null

\* what evaluateBudget returns and leaves in the two fields
Budget(split, usage, suppress, skipped, total) ==
  [split |-> split, usage |-> usage, suppress |-> suppress,
   skipped |-> skipped, total |-> total]

evaluateBudgetNoCooldown(history, usage, suppress) ==
  IF Len(history) = 0 THEN Budget(Null, usage, suppress, FALSE, Null)
  ELSE IF config.maxHistoryTokens # 0
  THEN LET totalTokens == TotalTokens(history, usage)
       IN  IF totalTokens <= config.maxHistoryTokens
           THEN Budget(Null, Null, FALSE, FALSE, totalTokens)
           ELSE Budget(TokenSplit(history), Null, FALSE, FALSE, totalTokens)
  ELSE Budget(CountSplit(history), usage, FALSE, FALSE, Null)

evaluateBudgetClearsHintFirst(history, usage, suppress) ==
  IF Len(history) = 0 THEN Budget(Null, Null, suppress, FALSE, Null)
  ELSE IF suppress THEN Budget(Null, Null, FALSE, TRUE, Null)
  ELSE IF config.maxHistoryTokens # 0
  THEN LET totalTokens == TotalTokens(history, usage)
       IN  IF totalTokens <= config.maxHistoryTokens
           THEN Budget(Null, Null, suppress, FALSE, totalTokens)
           ELSE Budget(TokenSplit(history), Null, suppress, FALSE, totalTokens)
  ELSE Budget(CountSplit(history), Null, suppress, FALSE, Null)

\* Janitor.evaluateBudget
evaluateBudget(history, usage, suppress) ==
  IF Len(history) = 0 THEN Budget(Null, usage, suppress, FALSE, Null)
  ELSE IF suppress THEN Budget(Null, usage, FALSE, TRUE, Null)
  ELSE IF config.maxHistoryTokens # 0
  THEN LET totalTokens == TotalTokens(history, usage)
       IN  IF totalTokens <= config.maxHistoryTokens
           THEN Budget(Null, Null, suppress, FALSE, totalTokens)
           ELSE Budget(TokenSplit(history), Null, suppress, FALSE, totalTokens)
  ELSE Budget(CountSplit(history), usage, suppress, FALSE, Null)

\* history.slice(0, splitIndex) and history.slice(splitIndex)
ToCompress(history, splitIndex) == SubSeq(history, 1, splitIndex)

ToKeepWhole(history, splitIndex) == history

ToKeep(history, splitIndex) == SubSeq(history, splitIndex + 1, Len(history))

\* Prompts.getFallbackCompressionSummary, as the content of a system message
FallbackSummaryOffByOne(truncatedCount) ==
  Msg("system", "fallback", 0, truncatedCount + 1, FALSE)

getFallbackCompressionSummary(truncatedCount) ==
  Msg("system", "fallback", 0, truncatedCount, FALSE)

\* summaryText += `\n(Compression failed: ${error})`
CompressionFailed(summary) == [summary EXCEPT !.failed = TRUE]

\* the text a working compressionModel returns
ModelSummary == Msg("system", "model", 0, 0, FALSE)

\* { role: 'user', content: Prompts.CONTEXT_COMPACTION_INSTRUCTION }
CompactionInstruction == Msg("user", "instruction", 0, 0, FALSE)

\* return [summaryMessage, ...toKeep]
CompressionResultSummaryLast(summaryMessage, toKeep) ==
  toKeep \o <<summaryMessage>>

CompressionResult(summaryMessage, toKeep) == <<summaryMessage>> \o toKeep

----------------------------------------------------------------------------
(* A compile call: its position and its locals *)

\* pc: "idle"        no call
\*     "summarizing" suspended in await compressionModel(...)   (line 634)
\*     "callback"    suspended in await onCompress(...)         (line 647)
\*     "compressed"  janitor.compress has returned to compile   (line 371)
\*     "rejected"    janitor.compress has thrown
\* usage and cooldown are the hint and the flag, and pos, prevOut, prevOver
\* the chain, that the call found when it began
IdleCall ==
  [pc |-> "idle", hist |-> <<>>, cooldown |-> FALSE, skipped |-> FALSE,
   usage |-> Null,
   total |-> Null, split |-> Null, sumCalls |-> 0, sumInput |-> <<>>,
   sumFailed |-> FALSE, cbCalls |-> 0, cbSummary |-> NoMsg, cbCount |-> 0,
   summary |-> NoMsg, result |-> <<>>, pos |-> 0, prevOut |-> 0,
   prevOver |-> FALSE]

NoLast ==
  [outcome |-> "none", target |-> "none", summary |-> NoMsg, input |-> <<>>,
   history |-> <<>>, messages |-> <<>>]

\* chain.pos: 1 when the last compress call to begin compacted (outLen is the
\* length of what it returns), 2 when it was the call right after such a
\* call, on a history at least as long as that result (over: the budget
\* evaluation of its history, the cooldown left aside, yields a split index);
\* 0 otherwise
NoChain == [pos |-> 0, outLen |-> 0, over |-> FALSE]

ChainAfter(c) ==
  IF c.split # Null
  THEN [pos |-> 1, outLen |-> Len(c.hist) - c.split + 1, over |-> FALSE]
  ELSE IF c.pos = 1 /\ Len(c.hist) >= c.prevOut
  THEN [pos |-> 2, outLen |-> 0,
        over |-> evaluateBudget(c.hist, c.usage, FALSE).split # Null]
  ELSE NoChain

\* compress returns history (line 556)
ReturnUnchanged(c) == [c EXCEPT !.pc = "compressed", !.result = c.hist]

\* the truncated count handed to onCompress (line 647)
OnCompressCountKept(c) == Len(c.hist) - c.split

OnCompressCount(c) == Len(ToCompress(c.hist, c.split))

\* return [summaryMessage, ...toKeep] (line 653)
ReturnCompressed(c) ==
  [c EXCEPT !.pc = "compressed",
            !.result = CompressionResult(c.summary, ToKeep(c.hist, c.split))]

\* executeCompression from the summaryMessage on (lines 641-653): either
\* suspend in onCompress or return
AfterSummaryNoCallback(c, summaryMessage) ==
  ReturnCompressed([c EXCEPT !.summary = summaryMessage])

AfterSummary(c, summaryMessage) ==
  IF config.onCompress
  THEN [c EXCEPT !.pc = "callback", !.summary = summaryMessage,
                 !.cbCalls = c.cbCalls + 1, !.cbSummary = summaryMessage,
                 !.cbCount = OnCompressCount(c)]
  ELSE ReturnCompressed([c EXCEPT !.summary = summaryMessage])

\* executeCompression up to the summarizer (lines 623-635)
BeginCompression(c) ==
  IF config.compressionModel
  THEN [c EXCEPT !.pc = "summarizing", !.sumCalls = c.sumCalls + 1,
                 !.sumInput = ToCompress(c.hist, c.split)
                              \o <<CompactionInstruction>>]
  ELSE AfterSummary(c, getFallbackCompressionSummary(
                         Len(ToCompress(c.hist, c.split))))

\* the catch block of executeCompression (lines 636-638)
OnSummarizerErrorRethrown(c) == [c EXCEPT !.pc = "rejected", !.sumFailed = TRUE]

OnSummarizerError(c) ==
  AfterSummary([c EXCEPT !.sumFailed = TRUE],
               CompressionFailed(getFallbackCompressionSummary(
                 Len(ToCompress(c.hist, c.split)))))

\* this._suppressNextCompression = true (line 651), which runs when
\* executeCompression is about to return
SuppressAfterAtOnce(c, suppress) ==
  IF c.split # Null THEN TRUE ELSE suppress

SuppressAfterNever(c, suppress) == suppress

SuppressAfter(c, suppress) ==
  IF c.pc = "compressed" /\ c.split # Null THEN TRUE ELSE suppress

----------------------------------------------------------------------------
(* Operations *)

Init ==
  /\ config \in Configs
  /\ externalTokenUsage = Null
  /\ suppressNext = FALSE
  /\ topLayer = <<>>
  /\ rollingHistory = <<>>
  /\ dynamicState = <<>>
  /\ dynamicStatePlacement = "last_user"
  /\ rawDynamicXml = ""
  /\ call = [p \in Callers |-> IdleCall]
  /\ last = NoLast
  /\ chain = NoChain
  /\ hintStale = FALSE
  /\ chefConfig = NoHooks
  /\ pruner = NoTools
  /\ pipe = [p \in Callers |-> IdlePipe]
  /\ applied = NotApplied
  /\ snap = NoSnap
  /\ cleared = FALSE

\* ContextChef.setTopLayer
SetTopLayer(messages) ==
  /\ topLayer' = messages
  /\ last' = NoLast
  /\ UNCHANGED <<config, externalTokenUsage, suppressNext, rollingHistory,
                 dynamicState, dynamicStatePlacement, rawDynamicXml, call,
                 chain, hintStale>>
  /\ UNCHANGED rest

\* ContextChef.useRollingHistory
UseRollingHistory(history) ==
  /\ rollingHistory' = history
  /\ last' = NoLast
  /\ UNCHANGED <<config, externalTokenUsage, suppressNext, layers, call,
                 chain, hintStale>>
  /\ UNCHANGED rest

\* ContextChef.feedTokenUsage -> Janitor.feedTokenUsage
FeedTokenUsage(tokenCount) ==
  /\ externalTokenUsage' = tokenCount
  /\ hintStale' = FALSE
  /\ last' = NoLast
  /\ cleared' = FALSE
  /\ UNCHANGED <<config, suppressNext, rollingHistory, layers, call, chain>>
  /\ UNCHANGED <<chefConfig, pruner, pipe, applied, snap>>

\* compile(): janitor.compress(this.rollingHistory) up to its first
\* suspension or to its return
Begin(p) ==
  /\ call[p].pc = "idle"
  /\ LET e  == evaluateBudget(rollingHistory, externalTokenUsage, suppressNext)
         c0 == [IdleCall EXCEPT !.hist = rollingHistory,
                                !.usage = externalTokenUsage,
                                !.cooldown = suppressNext,
                                !.skipped = e.skipped, !.total = e.total,
                                !.split = e.split, !.pos = chain.pos,
                                !.prevOut = chain.outLen,
                                !.prevOver = chain.over]
         c1 == IF e.split = Null THEN ReturnUnchanged(c0)
               ELSE BeginCompression(c0)
     IN  /\ call' = [call EXCEPT ![p] = c1]
         /\ externalTokenUsage' = e.usage
         /\ suppressNext' = SuppressAfter(c1, e.suppress)
         /\ chain' = ChainAfter(c0)
         /\ hintStale' = (e.usage # Null)
  /\ last' = NoLast
  /\ UNCHANGED <<config, rollingHistory, layers>>
  /\ UNCHANGED rest

\* no compile call is in flight
Quiet == \A q \in Callers : call[q].pc = "idle"

\* ContextChef.compile, called while no other call is in flight
CompileStart(p) ==
  /\ Quiet
  /\ Begin(p)

Resume(p, c1) ==
  /\ call' = [call EXCEPT ![p] = c1]
  /\ suppressNext' = SuppressAfter(c1, suppressNext)
  /\ last' = NoLast
  /\ UNCHANGED <<config, externalTokenUsage, rollingHistory, layers, chain,
                 hintStale>>
  /\ UNCHANGED rest

\* the compressionModel resolves with its summary
SummarizerResolves(p) ==
  /\ call[p].pc = "summarizing"
  /\ Resume(p, AfterSummary(call[p], ModelSummary))

\* the compressionModel throws or rejects
SummarizerRejects(p) ==
  /\ call[p].pc = "summarizing"
  /\ Resume(p, OnSummarizerError(call[p]))

\* onCompress returns
OnCompressReturns(p) ==
  /\ call[p].pc = "callback"
  /\ Resume(p, ReturnCompressed(call[p]))

\* what compile leaves in this.rollingHistory: it never assigns the field
HistoryAfterCompileWrittenBack(c) == c.result

HistoryAfterCompile(c) == rollingHistory

\* getAdapter(target) finds an adapter (AdapterFactory.ts, lines 9-20)
KnownTarget(target) == target \in {"openai", "anthropic", "gemini"}

\* compile() from the sandwich assembly to its return (lines 402-421), with
\* no hook and no memory store configured
CompileReturn(p, target) ==
  /\ call[p].pc \in {"compressed", "rejected"}
  /\ last' = IF call[p].pc = "compressed" /\ KnownTarget(target)
             THEN [outcome |-> "payload", target |-> target,
                   summary |-> call[p].summary, input |-> call[p].hist,
                   history |-> call[p].result,
                   messages |-> topLayer \o call[p].result \o dynamicState]
             ELSE [outcome |-> "error", target |-> target,
                   summary |-> call[p].summary, input |-> call[p].hist,
                   history |-> <<>>,
                   messages |-> <<>>]
  /\ rollingHistory' = HistoryAfterCompile(call[p])
  /\ call' = [call EXCEPT ![p] = IdleCall]
  /\ UNCHANGED <<config, externalTokenUsage, suppressNext, layers, chain,
                 hintStale>>
  /\ UNCHANGED rest

\* the XML of the caller's state, objectToXml(parsedState, 'dynamic_state')
StateXml == "<dynamic_state/>"

\* { role: 'system', content: `CURRENT TASK STATE:\n${xml}` }
StateMsg == Msg("system", "state", 0, 0, FALSE)

\* ContextChef.setDynamicState
SetDynamicState(placement) ==
  /\ dynamicStatePlacement' = placement
  /\ rawDynamicXml' = StateXml
  /\ dynamicState' = IF placement = "system" THEN <<StateMsg>> ELSE <<>>
  /\ last' = NoLast
  /\ UNCHANGED <<config, externalTokenUsage, suppressNext, topLayer,
                 rollingHistory, call, chain, hintStale>>
  /\ UNCHANGED rest

\* Janitor.reset: the hint and the cooldown flag go back to their initial
\* values
JanitorReset == [usage |-> Null, suppress |-> FALSE]

\* clearRollingHistory without its this.janitor.reset()
ClearRollingHistoryWithoutReset ==
  /\ rollingHistory' = <<>>
  /\ chain' = NoChain
  /\ last' = NoLast
  /\ cleared' = TRUE
  /\ UNCHANGED <<config, externalTokenUsage, suppressNext, hintStale, layers,
                 call>>
  /\ UNCHANGED <<chefConfig, pruner, pipe, applied, snap>>

\* ContextChef.clearRollingHistory
ClearRollingHistory ==
  /\ rollingHistory' = <<>>
  /\ externalTokenUsage' = JanitorReset.usage
  /\ suppressNext' = JanitorReset.suppress
  /\ chain' = NoChain
  /\ hintStale' = FALSE
  /\ last' = NoLast
  /\ cleared' = TRUE
  /\ UNCHANGED <<config, layers, call>>
  /\ UNCHANGED <<chefConfig, pruner, pipe, applied, snap>>

\* the static layer of the caller
SystemPrompt == Msg("system", "text", 3, 0, FALSE)

\* one caller that sets, feeds, clears and compiles, and awaits each compile
\* call before its next operation
Next ==
  \/ Quiet /\ \E history \in Histories : UseRollingHistory(history)
  \/ Quiet /\ \E tokenCount \in Hints : FeedTokenUsage(tokenCount)
  \/ Quiet /\ ClearRollingHistory
  \/ CompileStart(1)
  \/ \E p \in Callers : SummarizerResolves(p)
  \/ \E p \in Callers : SummarizerRejects(p)
  \/ \E p \in Callers : OnCompressReturns(p)
  \/ \E p \in Callers, target \in Targets : CompileReturn(p, target)

Spec == Init /\ [][Next]_vars

\* the orchestrator with its layers: a few controller configurations
ChefConfigs ==
  {c \in Configs : /\ c.compressionModel /\ c.onCompress
                   /\ c.preserveRecentTokens \in {Null, 60}
                   /\ c.preserveRecentCount \in {Null, 5}
                   /\ c.tokenizer = "heuristic"}

InitChef == Init /\ config \in ChefConfigs

NextChef ==
  \/ Next
  \/ Quiet /\ \E messages \in {<<>>, <<SystemPrompt>>} : SetTopLayer(messages)
  \/ Quiet /\ \E placement \in {"system", "last_user"} :
                SetDynamicState(placement)

SpecChef == InitChef /\ [][NextChef]_vars

----------------------------------------------------------------------------
(* Properties of the compaction controller *)

\* the compress call of caller p has returned to compile
Returned(p) == call[p].pc = "compressed"

\* the compress call of caller p got a split index
Fired(p) == call[p].pc # "idle" /\ call[p].split # Null

\* the last k messages of a history
Suffix(history, k) == SubSeq(history, Len(history) - k + 1, Len(history))

\* the sum of the estimates of the last k messages, each taken alone
RECURSIVE SuffixTokens(_, _)
SuffixTokens(history, k) ==
  IF k = 0 THEN 0
  ELSE getTokenCount(<<history[Len(history) - k + 1]>>)
       + SuffixTokens(history, k - 1)

TokenMode == config.maxHistoryTokens # 0

CountMode == config.maxHistoryTokens = 0 /\ config.maxHistoryLimit # 0

\* C1: compress returns its input unchanged, or one synthetic system message
\* followed by the suffix history[split..end) of its input for a split >= 1,
\* the kept messages being the original ones in their original order
C1_PrefixReplaced ==
  \A p \in Callers : Returned(p) =>
    LET c == call[p]
    IN  \/ c.result = c.hist
        \/ \E split \in 1 .. Len(c.hist) :
             /\ Len(c.result) = 1 + Len(c.hist) - split
             /\ c.result[1].role = "system"
             /\ c.result[1].kind \in {"model", "fallback"}
             /\ \A i \in 1 .. Len(c.hist) - split :
                  c.result[i + 1] = c.hist[split + i]

\* a compaction that kept two different messages
C1_Witness ==
  \E p \in Callers :
    /\ Returned(p) /\ Fired(p)
    /\ Len(call[p].result) >= 3
    /\ call[p].result[2] # call[p].result[3]

\* C2: with no reset between them, the compress call right after a call that
\* compacted, on a history at least as long as the compacted one, returns its
\* input unchanged and invokes no summarizer; the call after that one is
\* evaluated against its budget again and compacts exactly when that
\* evaluation yields a split index
C2_Suppression ==
  \A p \in Callers : Returned(p) =>
    LET c == call[p]
    IN  /\ (c.pos = 1 /\ Len(c.hist) >= c.prevOut) =>
             (c.result = c.hist /\ c.sumCalls = 0 /\ c.split = Null)
        /\ c.pos = 2 =>
             /\ ~c.skipped
             /\ (c.split # Null) =
                  (evaluateBudget(c.hist, c.usage, FALSE).split # Null)

\* the third call compacts after the second, over budget, was skipped
C2_Witness ==
  \E p \in Callers :
    /\ Returned(p) /\ Fired(p)
    /\ call[p].pos = 2 /\ call[p].prevOver

\* the effective total of a call: max(estimate(history), fed hint or 0)
EffectiveTotal(c) ==
  Max(getTokenCount(c.hist), IF c.usage = Null THEN 0 ELSE c.usage)

\* C3 as stated: in token mode a call that found no cooldown compacts
\* exactly when max(estimate(history), hint or 0) exceeds max_tokens, and
\* returns its input unchanged when the total is within max_tokens
C3_FiresIffOverMax ==
  \A p \in Callers : (Returned(p) /\ TokenMode /\ ~call[p].cooldown) =>
    LET c == call[p]
    IN  /\ (c.split # Null) = (EffectiveTotal(c) > config.maxHistoryTokens)
        /\ EffectiveTotal(c) <= config.maxHistoryTokens => c.result = c.hist

\* C3 amended: in token mode a call that found no cooldown, on a non-empty
\* history, takes max(estimate(history), hint or 0) as its total; within
\* max_tokens it returns its input unchanged; it compacts exactly when the
\* total exceeds max_tokens and the history has at least two messages whose
\* estimates, each taken alone, sum to more than preserve_tokens; an empty
\* history is returned unchanged whatever the hint
C3_FiresIffOverMaxAndSplit ==
  \A p \in Callers : (Returned(p) /\ TokenMode /\ ~call[p].cooldown) =>
    LET c == call[p]
    IN  IF Len(c.hist) = 0 THEN c.result = c.hist /\ c.split = Null
        ELSE /\ c.total = EffectiveTotal(c)
             /\ c.total <= config.maxHistoryTokens => c.result = c.hist
             /\ (c.split # Null) =
                  (/\ c.total > config.maxHistoryTokens
                   /\ Len(c.hist) >= 2
                   /\ SuffixTokens(c.hist, Len(c.hist)) > PreserveTarget)

\* a hint above max_tokens compacts a history whose estimate is within it
C3_Witness ==
  \E p \in Callers :
    /\ Returned(p) /\ Fired(p) /\ TokenMode
    /\ getTokenCount(call[p].hist) <= config.maxHistoryTokens
    /\ call[p].usage > config.maxHistoryTokens

\* preserve_tokens, by default floor(0.7 * max_tokens)
PreserveTokensOrDefault ==
  IF config.preserveRecentTokens = Null
  THEN (7 * config.maxHistoryTokens) \div 10
  ELSE config.preserveRecentTokens

\* C4: when compaction fires in token mode the kept suffix is the longest
\* suffix whose estimates, each message taken alone, sum to at most
\* preserve_tokens (by default floor(0.7 * max_tokens)); when the newest
\* message alone exceeds preserve_tokens exactly that message is kept; the
\* kept suffix is never empty
C4_LongestSuffixKept ==
  \A p \in Callers : (Fired(p) /\ TokenMode) =>
    LET c == call[p]
        n == Len(c.hist)
        k == n - c.split
    IN  /\ k >= 1
        /\ IF getTokenCount(<<c.hist[n]>>) > PreserveTokensOrDefault
           THEN k = 1
           ELSE /\ SuffixTokens(c.hist, k) <= PreserveTokensOrDefault
                /\ SuffixTokens(c.hist, k + 1) > PreserveTokensOrDefault
        /\ Returned(p) => Tail(c.result) = Suffix(c.hist, k)

\* a compaction under the default preserve_tokens that the newest message
\* fits into
C4_Witness ==
  \E p \in Callers :
    /\ Returned(p) /\ Fired(p) /\ TokenMode
    /\ config.preserveRecentTokens = Null
    /\ getTokenCount(<<call[p].hist[Len(call[p].hist)]>>)
         <= PreserveTokensOrDefault

\* preserve_count, by default floor(0.7 * max_messages)
PreserveCountOrDefault ==
  IF config.preserveRecentCount = Null
  THEN (7 * config.maxHistoryLimit) \div 10
  ELSE config.preserveRecentCount

\* what C5 says of a call whose history is longer than max_messages
C5_SplitAtPreserveCount(c) ==
  LET n == Len(c.hist)
      keep == PreserveCountOrDefault
  IN  /\ c.split = n - keep
      /\ Len(c.result) = 1 + keep
      /\ c.result[1].role = "system"
      /\ Tail(c.result) = Suffix(c.hist, keep)
      /\ config.compressionModel =>
           /\ c.sumCalls = 1
           /\ SubSeq(c.sumInput, 1, n - keep) = SubSeq(c.hist, 1, n - keep)

\* C5 as stated: in count mode a call that found no cooldown returns its
\* input unchanged when length <= max_messages, and otherwise splits at
\* length - preserve_count: one summary followed by the last preserve_count
\* messages, the summarizer receiving the first length - preserve_count
C5_CountMode ==
  \A p \in Callers : (Returned(p) /\ CountMode /\ ~call[p].cooldown) =>
    LET c == call[p]
    IN  IF Len(c.hist) <= config.maxHistoryLimit
        THEN c.result = c.hist /\ c.split = Null
        ELSE C5_SplitAtPreserveCount(c)

\* C5 amended: as stated when preserve_count < length; when length >
\* max_messages and preserve_count >= length the input is returned unchanged
\* and no summarizer is invoked
C5_CountModeWhenPreserveBelowLength ==
  \A p \in Callers : (Returned(p) /\ CountMode /\ ~call[p].cooldown) =>
    LET c == call[p]
    IN  IF Len(c.hist) <= config.maxHistoryLimit
             \/ PreserveCountOrDefault >= Len(c.hist)
        THEN c.result = c.hist /\ c.split = Null /\ c.sumCalls = 0
        ELSE C5_SplitAtPreserveCount(c)

\* a compaction in count mode under the default preserve_count
C5_Witness ==
  \E p \in Callers :
    /\ Returned(p) /\ Fired(p) /\ CountMode
    /\ config.preserveRecentCount = Null
    /\ config.compressionModel
    /\ Len(call[p].hist) > config.maxHistoryLimit

\* C6: the hint is consumed by the very next compress call: when a compress
\* call has returned the hint is null, whatever the outcome of the call and
\* the budget mode, so that no hint is left to a later call
C6_HintConsumedByNextCall ==
  /\ \A p \in Callers : Returned(p) => externalTokenUsage = Null
  /\ ~hintStale

\* the placeholder a call builds when its summarizer is missing or has failed
Placeholder(c) == Msg("system", "fallback", 0, c.split, c.sumFailed)

\* C7: when a split index exists and the summarizer throws, rejects or is
\* not configured, compress does not fail: it returns a placeholder system
\* message that states the number of truncated messages, the split index,
\* followed by the kept suffix; and the compile call returns a payload that
\* carries them, unless its target is one no adapter exists for
C7_FallbackOnSummarizerFailure ==
  /\ \A p \in Callers :
       LET c == call[p]
       IN  (Fired(p) /\ (c.sumFailed \/ ~config.compressionModel)) =>
             /\ c.pc # "rejected"
             /\ Returned(p) =>
                  c.result = <<Placeholder(c)>>
                               \o Suffix(c.hist, Len(c.hist) - c.split)
  /\ (last.outcome # "none" /\ last.summary.kind = "fallback") =>
       /\ (last.outcome = "payload") = KnownTarget(last.target)
       /\ last.outcome = "payload" =>
            /\ Head(last.history) = last.summary
            /\ last.summary.n = Len(last.input) - Len(last.history) + 1

\* a compile call returned a payload after its summarizer had failed
C7_Witness ==
  /\ last.outcome = "payload"
  /\ last.summary.kind = "fallback"
  /\ last.summary.failed

Compacted == last.outcome = "payload" /\ last.summary # NoMsg

SummaryOf(c) ==
  IF config.compressionModel /\ ~c.sumFailed
  THEN Msg("system", "model", 0, 0, FALSE)
  ELSE Placeholder(c)

----------------------------------------------------------------------------
(* JavaScript values: the messages as the Stitcher and the adapters see them *)

\* A value is a record [t, v], v a sequence:
\*   string  : the pieces whose concatenation is the string (<<>> is '')
\*   boolean : <<"true">> or <<"false">>
\*   object  : its own properties <<key, value>> in own-property order
\*   array   : its elements
Str(pieces) == [t |-> "string", v |-> pieces]

Bool(b) == [t |-> "boolean", v |-> <<IF b THEN "true" ELSE "false">>]

Obj(props) == [t |-> "object", v |-> props]

Arr(elems) == [t |-> "array", v |-> elems]

Undefined == [t |-> "undefined", v |-> <<>>]

\* Object.keys(obj)
Keys(obj) == [i \in 1..Len(obj.v) |-> obj.v[i][1]]

\* key in obj
Has(obj, key) == \E i \in 1..Len(obj.v) : obj.v[i][1] = key

\* obj[key]
Get(obj, key) ==
  IF Has(obj, key)
  THEN obj.v[CHOOSE i \in 1..Len(obj.v) : obj.v[i][1] = key][2]
  ELSE Undefined

\* truthiness of obj[key]: undefined, '' and false are falsy
Truthy(value) ==
  CASE value.t = "undefined" -> FALSE
    [] value.t = "string"    -> value.v # <<>>
    [] value.t = "boolean"   -> value.v = <<"true">>
    [] OTHER                 -> TRUE

\* the keys the engine keeps first, in ascending numeric order, whatever the
\* order of insertion: the canonical array indices
IntegerKey(key) == key \in {"9", "10"}

IntegerOf(key) == IF key = "9" THEN 9 ELSE 10

\* obj[key] = value on an object: an own property keeps its place, a new
\* integer key goes among the integer keys, any other new key goes last
SetProp(obj, key, value) ==
  IF Has(obj, key)
  THEN Obj([i \in 1..Len(obj.v) |->
              IF obj.v[i][1] = key THEN <<key, value>> ELSE obj.v[i]])
  ELSE IF IntegerKey(key)
  THEN LET before == SelectSeq(obj.v, LAMBDA q :
                       IntegerKey(q[1]) /\ IntegerOf(q[1]) < IntegerOf(key))
           after  == SelectSeq(obj.v, LAMBDA q :
                       ~(IntegerKey(q[1]) /\ IntegerOf(q[1]) < IntegerOf(key)))
       IN  Obj(before \o <<<<key, value>>>> \o after)
  ELSE Obj(Append(obj.v, <<key, value>>))

RECURSIVE FromEntries(_)

\* the object a program gets by setting the properties one after the other
FromEntries(props) ==
  IF props = <<>> THEN Obj(<<>>)
  ELSE LET n == Len(props)
       IN  SetProp(FromEntries(SubSeq(props, 1, n - 1)),
                   props[n][1], props[n][2])

RECURSIVE JSONclone(_)

\* JSON.parse(JSON.stringify(value)): a copy of the value, built anew, without
\* the properties whose value is undefined
JSONclone(value) ==
  CASE value.t = "object" ->
         LET kept == SelectSeq(value.v, LAMBDA q : q[2].t # "undefined")
         IN  FromEntries([i \in 1..Len(kept) |->
                            <<kept[i][1], JSONclone(kept[i][2])>>])
    [] value.t = "array" ->
         Arr([i \in 1..Len(value.v) |-> JSONclone(value.v[i])])
    [] OTHER -> value

\* const { key, ...rest } = obj
WithoutKeys(obj, keys) == Obj(SelectSeq(obj.v, LAMBDA q : q[1] \notin keys))

\* the property names of the model in the order of Array.prototype.sort(),
\* which compares UTF-16 code units
CodeUnitOrder ==
  <<"10", "9", "_cache_breakpoint", "a", "arguments", "b", "content", "data",
    "function", "id", "name", "redacted_thinking", "role", "signature",
    "thinking", "tool_call_id", "tool_calls", "type", "x_meta">>

KeyRank(key) == CHOOSE i \in 1..Len(CodeUnitOrder) : CodeUnitOrder[i] = key

\* keys.sort()
SortKeysAsInserted(keys) == keys

SortKeys(keys) == SortSeq(keys, LAMBDA a, b : KeyRank(a) < KeyRank(b))

----------------------------------------------------------------------------
(* Stitcher: src/src/modules/stitcher/index.test.ts, lines 74-148 *)

RECURSIVE orderKeysDeterministically(_), OrderProps(_, _, _)

\* obj.map(Stitcher.orderKeysDeterministically) (line 77)
OrderElemsReversed(elems) ==
  [i \in 1..Len(elems) |->
     orderKeysDeterministically(elems[Len(elems) + 1 - i])]

OrderElems(elems) ==
  [i \in 1..Len(elems) |-> orderKeysDeterministically(elems[i])]

\* the loop over the sorted keys (lines 81-87): the value of every key but
\* _cache_breakpoint is rebuilt, that of _cache_breakpoint is copied
OrderProps(src, keys, sortedObj) ==
  IF keys = <<>> THEN sortedObj
  ELSE LET key   == Head(keys)
           value == IF key # "_cache_breakpoint"
                    THEN orderKeysDeterministically(Get(src, key))
                    ELSE Get(src, key)
       IN  OrderProps(src, Tail(keys), SetProp(sortedObj, key, value))

orderKeysDeterministically(obj) ==
  IF obj.t \notin {"object", "array"} THEN obj
  ELSE IF obj.t = "array" THEN Arr(OrderElems(obj.v))
  ELSE OrderProps(obj, SortKeys(Keys(obj)), Obj(<<>>))

RECURSIVE JSONstringify(_), StringifyProps(_), StringifyElems(_)

StringifyProps(props) ==
  IF props = <<>> THEN <<>>
  ELSE <<"\"", Head(props)[1], "\":">> \o JSONstringify(Head(props)[2])
         \o (IF Len(props) > 1 THEN <<",">> ELSE <<>>)
         \o StringifyProps(Tail(props))

StringifyElems(elems) ==
  IF elems = <<>> THEN <<>>
  ELSE JSONstringify(Head(elems))
         \o (IF Len(elems) > 1 THEN <<",">> ELSE <<>>)
         \o StringifyElems(Tail(elems))

\* JSON.stringify(value): the text, as the sequence of its pieces
JSONstringify(value) ==
  CASE value.t = "string"  -> <<"\"">> \o value.v \o <<"\"">>
    [] value.t = "boolean" -> value.v
    [] value.t = "object"  -> <<"{">> \o StringifyProps(value.v) \o <<"}">>
    [] value.t = "array"   -> <<"[">> \o StringifyElems(value.v) \o <<"]">>

\* Stitcher.stringifyPayload (lines 91-93)
stringifyPayload(payload) == JSONstringify(orderKeysDeterministically(payload))

\* the block appended to a user message (line 105)
stateBlock(dynamicStateXml) ==
  <<"\n\n", "<dynamic_state>\n">> \o dynamicStateXml
    \o <<"\n</dynamic_state>\nAbove is the current system state. Use it to guide your next action.">>

\* String.prototype.trim on a state block: its leading line feeds go
Trim(pieces) ==
  IF pieces # <<>> /\ Head(pieces) = "\n\n" THEN Tail(pieces) ELSE pieces

\* a message literal { role, content }
IrMsg(role, content) ==
  Obj(<<<<"role", Str(<<role>>)>>, <<"content", Str(content)>>>>)

RoleOf(msg) == Get(msg, "role")

\* the index of the last message with one of the roles, 0 when there is none
\* (the backward loops of lines 108-114, and of the adapters)
LastIndexWithRole(messages, roles) ==
  LET found == {i \in 1..Len(messages) : RoleOf(messages[i]) \in roles}
  IN  IF found = {} THEN 0 ELSE CHOOSE i \in found : \A j \in found : j <= i

FirstIndexWithRole(messages, roles) ==
  LET found == {i \in 1..Len(messages) : RoleOf(messages[i]) \in roles}
  IN  IF found = {} THEN 0 ELSE CHOOSE i \in found : \A j \in found : i <= j

\* { ...msg, content: msg.content + text }
AppendContent(msg, text) ==
  SetProp(msg, "content", Str(Get(msg, "content").v \o text))

\* Stitcher.injectIntoLastUser (lines 104-129)
injectIntoFirstUser(messages, dynamicStateXml) ==
  LET lastUserIndex == FirstIndexWithRole(messages, {Str(<<"user">>)})
  IN  IF lastUserIndex # 0
      THEN [messages EXCEPT ![lastUserIndex] =
              AppendContent(@, stateBlock(dynamicStateXml))]
      ELSE Append(messages, IrMsg("user", Trim(stateBlock(dynamicStateXml))))

injectIntoLastUser(messages, dynamicStateXml) ==
  LET lastUserIndex == LastIndexWithRole(messages, {Str(<<"user">>)})
  IN  IF lastUserIndex # 0
      THEN [messages EXCEPT ![lastUserIndex] =
              AppendContent(@, stateBlock(dynamicStateXml))]
      ELSE Append(messages, IrMsg("user", Trim(stateBlock(dynamicStateXml))))

\* StitchOptions: dynamicStateXml <<>> is a missing or an empty text
StitchOptions(dynamicStateXml, placement) ==
  [dynamicStateXml |-> dynamicStateXml, placement |-> placement]

\* Stitcher.compile (lines 137-147)
StitcherCompile(messages, options) ==
  LET assembled ==
        IF options.dynamicStateXml # <<>> /\ options.placement = "last_user"
        THEN injectIntoLastUser(messages, options.dynamicStateXml)
        ELSE messages
  IN  [messages |-> OrderElems(assembled)]

----------------------------------------------------------------------------
(* Adapters *)

\* a payload: messages is a sequence of objects; system, systemInstruction
\* and tools are a value, Undefined when the payload has no such field
Payload(messages, system, systemInstruction) ==
  [messages |-> messages, system |-> system,
   systemInstruction |-> systemInstruction, tools |-> Undefined]

\* Prompts.getPrefillEnforcement (part_009, lines 124-131)
getPrefillEnforcement(prefillContent) ==
  <<"<ephemeral_message type=\"prefill_enforcement\">\nSYSTEM INSTRUCTION: Your response MUST start verbatim with the following text:\n\"">>
    \o prefillContent
    \o <<"\"\n\nDo not output any introductory text or acknowledgement. Start directly with the text above.\n</ephemeral_message>">>

\* the texts the model parses: JSON.parse(text) returns for these
JsonTexts == {<<"{}">>, <<"{\"path\":\"a.ts\"}">>}

\* JSON.parse(text), for a text of JsonTexts
JSONparse(text) ==
  IF text = <<"{}">> THEN Obj(<<>>)
  ELSE Obj(<<<<"path", Str(<<"a.ts">>)>>>>)

\* value ?? fallback
OrElse(value, fallback) == IF value.t = "undefined" THEN fallback ELSE value

\* `${a}\n\n${b}`
Paragraphs(a, b) == Str(a.v \o <<"\n\n">> \o b)

(* OpenAIAdapter: src/unnamed/part_008 *)

\* the fields the adapter takes off every message (lines 8-12)
StripInternalKeepsThinking(msg) ==
  JSONclone(WithoutKeys(msg, {"_cache_breakpoint"}))

StripInternal(msg) ==
  JSONclone(WithoutKeys(msg, {"_cache_breakpoint", "thinking",
                              "redacted_thinking"}))

\* the condition of lines 16-19 on the last message
IsPrefill(lastMsg) ==
  /\ RoleOf(lastMsg) = Str(<<"assistant">>)
  /\ \/ ~Has(lastMsg, "tool_calls")
     \/ ~Truthy(Get(lastMsg, "tool_calls"))
     \/ Len(Get(lastMsg, "tool_calls").v) = 0

\* lines 24-34: the prefill goes to the nearest user or system message
\* before it, and nowhere when there is none
EnforceOnNearest(formattedMessages, prefillContent) ==
  LET i == LastIndexWithRole(formattedMessages,
                             {Str(<<"user">>), Str(<<"system">>)})
  IN  IF i = 0 THEN formattedMessages
      ELSE [formattedMessages EXCEPT ![i] =
              SetProp(@, "content",
                      Paragraphs(OrElse(Get(@, "content"), Str(<<>>)),
                                 getPrefillEnforcement(prefillContent.v)))]

\* OpenAIAdapter.compile (lines 7-40)
OpenAIAdapterCompile(messages) ==
  LET formattedMessages ==
        [i \in 1..Len(messages) |-> StripInternal(messages[i])]
      n == Len(formattedMessages)
  IN  IF n > 0 /\ IsPrefill(formattedMessages[n])
      THEN LET popped == formattedMessages[n]
               others == SubSeq(formattedMessages, 1, n - 1)
               prefillContent == Get(popped, "content")
           IN  IF prefillContent.t = "string"
               THEN Payload(EnforceOnNearest(others, prefillContent),
                            Undefined, Undefined)
               ELSE Payload(others, Undefined, Undefined)
      ELSE Payload(formattedMessages, Undefined, Undefined)

(* AnthropicAdapter: src/src/adapters/AnthropicAdapter.ts, lines 13-97 *)

\* cache_control = { type: 'ephemeral' } on a block, when the message is
\* marked (lines 21-23, 82-84)
WithCacheControl(block, msg) ==
  IF Truthy(Get(msg, "_cache_breakpoint"))
  THEN SetProp(block, "cache_control", Obj(<<<<"type", Str(<<"ephemeral">>)>>>>))
  ELSE block

\* the system block of a system message (lines 20-24)
SystemBlock(msg) ==
  WithCacheControl(Obj(<<<<"type", Str(<<"text">>)>>,
                         <<"text", Get(msg, "content")>>>>), msg)

\* the thinking and redacted_thinking blocks of a message (lines 39-53,
\* 66-80)
ThinkingBlocks(msg) ==
  (IF Truthy(Get(msg, "thinking"))
   THEN <<Obj(<<<<"type", Str(<<"thinking">>)>>,
                <<"thinking", Get(Get(msg, "thinking"), "thinking")>>,
                <<"signature", OrElse(Get(Get(msg, "thinking"), "signature"),
                                      Str(<<>>))>>>>)>>
   ELSE <<>>)
  \o
  (IF Truthy(Get(msg, "redacted_thinking"))
   THEN <<Obj(<<<<"type", Str(<<"redacted_thinking">>)>>,
                <<"data", Get(Get(msg, "redacted_thinking"), "data")>>>>)>>
   ELSE <<>>)

\* a tool_use block (lines 56-61)
ToolUseBlock(tc) ==
  Obj(<<<<"type", Str(<<"tool_use">>)>>,
        <<"id", Get(tc, "id")>>,
        <<"name", Get(Get(tc, "function"), "name")>>,
        <<"input", JSONparse(Get(Get(tc, "function"), "arguments").v)>>>>)

\* msg.content || ''
ContentOrEmpty(msg) ==
  IF Truthy(Get(msg, "content")) THEN Get(msg, "content") ELSE Str(<<>>)

\* the content blocks of a message that is not a system message (lines 28-86)
ContentBlocks(msg) ==
  IF RoleOf(msg) = Str(<<"tool">>)
  THEN <<Obj(<<<<"type", Str(<<"tool_result">>)>>,
               <<"tool_use_id", OrElse(Get(msg, "tool_call_id"), Str(<<>>))>>,
               <<"content", Get(msg, "content")>>>>)>>
  ELSE IF Truthy(Get(msg, "tool_calls"))
  THEN ThinkingBlocks(msg)
         \o <<Obj(<<<<"type", Str(<<"text">>)>>, <<"text", ContentOrEmpty(msg)>>>>)>>
         \o [i \in 1..Len(Get(msg, "tool_calls").v) |->
               ToolUseBlock(Get(msg, "tool_calls").v[i])]
  ELSE ThinkingBlocks(msg)
         \o <<WithCacheControl(Obj(<<<<"type", Str(<<"text">>)>>,
                                     <<"text", Get(msg, "content")>>>>), msg)>>

\* chatMessages.push({ role, content }) (lines 26-27, 88)
ChatMessage(msg) ==
  Obj(<<<<"role", IF RoleOf(msg) = Str(<<"tool">>) THEN Str(<<"user">>)
                  ELSE RoleOf(msg)>>,
        <<"content", Arr(ContentBlocks(msg))>>>>)

IsSystem(msg) == RoleOf(msg) = Str(<<"system">>)

\* the messages the loop pushes to chatMessages (lines 18, 25-89)
ChatMessagesNoPrefill(messages) ==
  LET chat == SelectSeq(messages, LAMBDA msg : ~IsSystem(msg))
      kept == IF chat # <<>> /\ IsPrefill(chat[Len(chat)])
              THEN SubSeq(chat, 1, Len(chat) - 1) ELSE chat
  IN  [i \in 1..Len(kept) |-> ChatMessage(kept[i])]

ChatMessages(messages) ==
  LET chat == SelectSeq(messages, LAMBDA msg : ~IsSystem(msg))
  IN  [i \in 1..Len(chat) |-> ChatMessage(chat[i])]

\* AnthropicAdapter.compile (lines 14-96)
AnthropicAdapterCompile(messages) ==
  LET sys == SelectSeq(messages, IsSystem)
      systemMessages == [i \in 1..Len(sys) |-> SystemBlock(sys[i])]
  IN  Payload(ChatMessages(messages),
              IF Len(systemMessages) > 0 THEN Arr(systemMessages)
              ELSE Undefined,
              Undefined)

(* GeminiAdapter: src/unnamed/part_006 *)

TextPart(text) == Obj(<<<<"text", text>>>>)

\* try { JSON.parse(msg.content) } catch { { result: msg.content } }
\* (lines 42-47)
ParsedResponse(content) ==
  IF content.v \in JsonTexts THEN JSONparse(content.v)
  ELSE Obj(<<<<"result", content>>>>)

\* a functionCall part (lines 70-75)
FunctionCallPart(tc) ==
  Obj(<<<<"functionCall",
          Obj(<<<<"name", Get(Get(tc, "function"), "name")>>,
                <<"args", JSONparse(Get(Get(tc, "function"), "arguments").v)>>>>)>>>>)

\* the element of contents a message that is not a system message becomes
\* (lines 41-89)
GeminiContent(msg) ==
  IF RoleOf(msg) = Str(<<"tool">>)
  THEN Obj(<<<<"role", Str(<<"user">>)>>,
             <<"parts", Arr(<<Obj(<<<<"functionResponse",
                 Obj(<<<<"name", OrElse(Get(msg, "name"),
                                   OrElse(Get(msg, "tool_call_id"),
                                          Str(<<"unknown">>)))>>,
                       <<"response", ParsedResponse(Get(msg, "content"))>>>>)>>>>)>>)>>>>)
  ELSE IF RoleOf(msg) = Str(<<"assistant">>)
  THEN LET calls == Get(msg, "tool_calls")
           parts ==
             IF Truthy(calls) /\ Len(calls.v) > 0
             THEN (IF Truthy(Get(msg, "content"))
                   THEN <<TextPart(Get(msg, "content"))>> ELSE <<>>)
                  \o [i \in 1..Len(calls.v) |-> FunctionCallPart(calls.v[i])]
             ELSE <<TextPart(Get(msg, "content"))>>
       IN  Obj(<<<<"role", Str(<<"model">>)>>, <<"parts", Arr(parts)>>>>)
  ELSE Obj(<<<<"role", Str(<<"user">>)>>,
             <<"parts", Arr(<<TextPart(Get(msg, "content"))>>)>>>>)

\* 'text' in part && part.text !== undefined
HasText(part) == Has(part, "text") /\ Get(part, "text").t # "undefined"

FirstPart(content) == Get(content, "parts").v[1]

\* isPlainModelMsg (lines 96-100)
IsPlainModelMsg(lastContent) ==
  /\ RoleOf(lastContent) = Str(<<"model">>)
  /\ Len(Get(lastContent, "parts").v) = 1
  /\ HasText(FirstPart(lastContent))

\* the backward loop of lines 107-120: the note goes to the nearest user
\* element whose first part is a text
NoteOnNearestUser(contents, prefillContent) ==
  LET found == {i \in 1..Len(contents) :
                  /\ RoleOf(contents[i]) = Str(<<"user">>)
                  /\ HasText(FirstPart(contents[i]))}
  IN  IF found = {} THEN contents
      ELSE LET i == CHOOSE k \in found : \A j \in found : j <= k
           IN  [contents EXCEPT ![i] =
                  SetProp(@, "parts",
                    Arr(<<TextPart(Paragraphs(Get(FirstPart(@), "text"),
                            getPrefillEnforcement(prefillContent.v)))>>))]

\* GeminiAdapter.compile (lines 31-135)
GeminiAdapterCompile(messages) ==
  LET sys == SelectSeq(messages, IsSystem)
      systemParts == [i \in 1..Len(sys) |-> TextPart(Get(sys[i], "content"))]
      chat == SelectSeq(messages, LAMBDA msg : ~IsSystem(msg))
      contents == [i \in 1..Len(chat) |-> GeminiContent(chat[i])]
      n == Len(contents)
      degrade == n > 0 /\ IsPlainModelMsg(contents[n])
      prefillContent == IF degrade THEN Get(FirstPart(contents[n]), "text")
                        ELSE Str(<<>>)
      degraded == IF degrade
                  THEN NoteOnNearestUser(SubSeq(contents, 1, n - 1),
                                         prefillContent)
                  ELSE contents
      allParts == IF degrade /\ \A i \in 1..Len(degraded) :
                                  RoleOf(degraded[i]) # Str(<<"user">>)
                  THEN Append(systemParts,
                              TextPart(Str(getPrefillEnforcement(prefillContent.v))))
                  ELSE systemParts
  IN  Payload(degraded, Undefined,
              IF Len(allParts) > 0
              THEN Obj(<<<<"parts", Arr(allParts)>>>>) ELSE Undefined)

\* getAdapter(target).compile(messages) (AdapterFactory.ts, lines 9-20)
AdapterCompile(target, messages) ==
  CASE target = "openai"    -> OpenAIAdapterCompile(messages)
    [] target = "anthropic" -> AnthropicAdapterCompile(messages)
    [] target = "gemini"    -> GeminiAdapterCompile(messages)

----------------------------------------------------------------------------
(* ContextChef.compile after the compaction: src/unnamed/part_015, 373-422 *)

\* the content of a message of the compaction model, as pieces
ContentOf(m) ==
  CASE m.kind = "text" /\ m.id = 1 -> <<"Message 1">>
    [] m.kind = "text" /\ m.id = 2 -> <<"twenty CJK characters">>
    [] m.kind = "text" /\ m.id = 3 -> <<"You are an expert.">>
    [] m.kind = "model"            -> <<"<history_summary>summary</history_summary>">>
    [] m.kind = "fallback"         ->
         <<"<history_summary>truncated: ", ToString(m.n), "</history_summary>">>
           \o (IF m.failed THEN <<"\n(Compression failed)">> ELSE <<>>)
    [] m.kind = "state"            -> <<"CURRENT TASK STATE:\n", StateXml>>
    [] OTHER                       -> <<m.kind>>

\* the message object { role, content } of a message of the compaction model
ToIr(m) == IrMsg(m.role, ContentOf(m))

ToIrAll(messages) == [i \in 1..Len(messages) |-> ToIr(messages[i])]

\* what the memory store holds: no store, a store without entries, a store
\* with one entry
MemoryStores == {"none", "empty", "rule"}

\* ContextChef._getMemoryMessages (lines 290-295) with Memory.toXml
\* (part_010, lines 42-47)
getMemoryMessages ==
  IF chefConfig.memoryStore = "rule"
  THEN <<IrMsg("system",
               <<"<core_memory>\n", "  <rule>be concise</rule>", "\n</core_memory>">>)>>
  ELSE <<>>

\* `<implicit_context>\n${injected}\n</implicit_context>`, '' when the hook
\* returns nothing (lines 374-385)
ImplicitContextXml(injected) ==
  IF injected # <<>>
  THEN <<"<implicit_context>\n">> \o injected \o <<"\n</implicit_context>">>
  ELSE <<>>

\* msg.content.includes('CURRENT TASK STATE')
IncludesTaskState(msg) ==
  \E i \in 1..Len(Get(msg, "content").v) :
    Get(msg, "content").v[i] = "CURRENT TASK STATE:\n"

\* step 3 (lines 389-396): with placement 'system' the implicit context goes
\* to the dynamic state message
DynamicStateWith(implicitContextXml) ==
  LET state == ToIrAll(dynamicState)
  IN  IF /\ implicitContextXml # <<>>
         /\ dynamicStatePlacement = "system"
         /\ Len(state) > 0
      THEN [i \in 1..Len(state) |->
              IF IncludesTaskState(state[i])
              THEN AppendContent(state[i], <<"\n">> \o implicitContextXml)
              ELSE state[i]]
      ELSE state

\* step 5 (line 402): the sandwich
SandwichHistoryFirst(top, memoryMessages, compressedHistory, state) ==
  compressedHistory \o top \o memoryMessages \o state

Sandwich(top, memoryMessages, compressedHistory, state) ==
  top \o memoryMessages \o compressedHistory \o state

\* [this.rawDynamicXml, implicitContextXml].filter(Boolean).join('\n')
\* (line 410)
StitchXml(implicitContextXml) ==
  LET raw == IF rawDynamicXml = "" THEN <<>> ELSE <<rawDynamicXml>>
  IN  IF raw # <<>> /\ implicitContextXml # <<>>
      THEN raw \o <<"\n">> \o implicitContextXml
      ELSE raw \o implicitContextXml

\* what a transformContext hook may return for the messages it is handed
Transforms == {"same", "withoutFirst"}

transformContext(how, messages) ==
  IF how = "withoutFirst" /\ messages # <<>> THEN Tail(messages) ELSE messages

----------------------------------------------------------------------------
(* Pruner: src/unnamed/part_013, lines 60-342 *)

\* the tool definitions of the caller; they carry no parameters
ReadFile ==
  Obj(<<<<"name", Str(<<"read_file">>)>>,
        <<"description", Str(<<"Read a file">>)>>,
        <<"tags", Arr(<<Str(<<"file">>), Str(<<"read">>)>>)>>>>)

GetTime ==
  Obj(<<<<"name", Str(<<"get_time">>)>>,
        <<"description", Str(<<"Get timestamp">>)>>>>)

ToolLists == {<<>>, <<GetTime>>, <<ReadFile, GetTime>>}

\* a ToolGroup
FileOps ==
  Obj(<<<<"name", Str(<<"file_ops">>)>>,
        <<"description", Str(<<"File operations">>)>>,
        <<"tools", Arr(<<ReadFile>>)>>>>)

GroupLists == {<<>>, <<FileOps>>}

RECURSIVE JoinLines(_)
\* lines.join('\n')
JoinLines(lines) ==
  IF lines = <<>> THEN <<>>
  ELSE IF Len(lines) = 1 THEN Head(lines)
  ELSE Head(lines) \o <<"\n">> \o JoinLines(Tail(lines))

NamesOf(tools) == [i \in 1..Len(tools) |-> Get(tools[i], "name")]

\* Pruner._compileNamespaceTool (lines 253-290)
compileNamespaceTool(group) ==
  LET tools == Get(group, "tools").v
      subToolDocs ==
        JoinLines([i \in 1..Len(tools) |->
          <<"- ">> \o Get(tools[i], "name").v \o <<": ">>
            \o Get(tools[i], "description").v])
  IN  Obj(<<<<"name", Get(group, "name")>>,
            <<"description",
              Str(Get(group, "description").v
                    \o <<"\n\nAvailable actions:\n">> \o subToolDocs)>>,
            <<"parameters",
              Obj(<<<<"type", Str(<<"object">>)>>,
                    <<"properties",
                      Obj(<<<<"action",
                              Obj(<<<<"type", Str(<<"string">>)>>,
                                    <<"enum", Arr(NamesOf(tools))>>>>)>>,
                            <<"args",
                              Obj(<<<<"type", Str(<<"object">>)>>>>)>>>>)>>,
                    <<"required",
                      Arr(<<Str(<<"action">>), Str(<<"args">>)>>)>>>>)>>>>)

\* Pruner._buildLoaderTool (lines 295-315)
buildLoaderTool ==
  Obj(<<<<"name", Str(<<"load_toolkit">>)>>,
        <<"description", Str(<<"Load a toolkit to access its specialized tools.">>)>>,
        <<"parameters",
          Obj(<<<<"type", Str(<<"object">>)>>,
                <<"properties",
                  Obj(<<<<"toolkit_name",
                          Obj(<<<<"type", Str(<<"string">>)>>,
                                <<"enum", Arr(NamesOf(pruner.lazyToolkits))>>>>)>>>>)>>,
                <<"required", Arr(<<Str(<<"toolkit_name">>)>>)>>>>)>>>>)

\* Pruner.compile().tools (lines 155-171)
PrunerCompile ==
  [i \in 1..Len(pruner.namespaces) |->
     compileNamespaceTool(pruner.namespaces[i])]
  \o (IF Len(pruner.lazyToolkits) > 0 THEN <<buildLoaderTool>> ELSE <<>>)

\* ContextChef._getPrunerTools (part_015, lines 301-305)
getPrunerTools ==
  IF Len(PrunerCompile) > 0 THEN PrunerCompile ELSE pruner.flatTools

\* tools.length > 0 ? { ...adapterPayload, tools } : adapterPayload
\* (part_015, line 421)
WithTools(adapterPayload, tools) ==
  IF Len(tools) > 0 THEN [adapterPayload EXCEPT !.tools = Arr(tools)]
  ELSE adapterPayload

----------------------------------------------------------------------------
(* The steps of compile() after the compaction *)

\* BeforeCompileContext (part_015, lines 45-50)
NoContext ==
  [topLayer |-> <<>>, rollingHistory |-> <<>>, dynamicState |-> <<>>,
   rawDynamicXml |-> ""]

\* the locals of compile() when janitor.compress has returned (line 371)
\* pc: "hook"      suspended in await this.onBeforeCompile(...)  (line 376)
\*     "memory"    suspended in await this._getMemoryMessages()  (line 399)
\*     "transform" suspended in await this.transformContext(...) (line 406)
\* steps: the steps of the call so far, in the order they were taken
RunOf(c) ==
  [pc |-> "start", steps |-> <<"compress">>, hookCalls |-> 0,
   hookContext |-> NoContext, implicitContextXml |-> <<>>,
   compressedHistory |-> ToIrAll(c.result), dynamicState |-> <<>>,
   sandwich |-> <<>>, transformCalls |-> 0, transformIn |-> <<>>]

\* lines 382-396, up to the await of line 399
AfterHook(r, injected) ==
  [r EXCEPT !.pc = "memory",
            !.implicitContextXml = ImplicitContextXml(injected),
            !.dynamicState = DynamicStateWith(ImplicitContextXml(injected))]

\* lines 374-381: the hook is called with the compacted history
BeforeCompile(p) ==
  /\ call[p].pc = "compressed"
  /\ pipe[p].pc = "idle"
  /\ LET r == RunOf(call[p])
     IN  pipe' = [pipe EXCEPT ![p] =
           IF chefConfig.onBeforeCompile
           THEN [r EXCEPT !.pc = "hook", !.steps = Append(r.steps, "hook"),
                          !.hookCalls = r.hookCalls + 1,
                          !.hookContext =
                            [topLayer |-> ToIrAll(topLayer),
                             rollingHistory |-> r.compressedHistory,
                             dynamicState |-> ToIrAll(dynamicState),
                             rawDynamicXml |-> rawDynamicXml]]
           ELSE AfterHook(r, <<>>)]
  /\ last' = NoLast
  /\ UNCHANGED <<config, externalTokenUsage, suppressNext, rollingHistory,
                 layers, call, chain, hintStale, chefConfig, pruner, applied,
                 snap, cleared>>

\* the hook returns injected: <<>> for null, undefined or ''
OnBeforeCompileReturns(p, injected) ==
  /\ pipe[p].pc = "hook"
  /\ pipe' = [pipe EXCEPT ![p] = AfterHook(pipe[p], injected)]
  /\ last' = NoLast
  /\ UNCHANGED <<config, externalTokenUsage, suppressNext, rollingHistory,
                 layers, call, chain, hintStale, chefConfig, pruner, applied,
                 snap, cleared>>

\* lines 410-421: the Stitcher, the adapter, the tools, and the return
Finish(p, r, messages, target) ==
  LET rawPayload ==
        StitcherCompile(messages,
          StitchOptions(StitchXml(r.implicitContextXml), dynamicStatePlacement))
  IN  /\ last' =
           IF KnownTarget(target)
           THEN [outcome |-> "payload", target |-> target,
                 summary |-> call[p].summary, input |-> call[p].hist,
                 history |-> call[p].result,
                 messages |-> rawPayload.messages,
                 run |-> [r EXCEPT !.pc = "returned",
                                   !.steps = r.steps \o <<"stitch", "adapt">>],
                 stitchIn |-> messages,
                 adapterIn |-> rawPayload.messages,
                 payload |-> WithTools(AdapterCompile(target, rawPayload.messages),
                                       getPrunerTools)]
           ELSE [outcome |-> "error", target |-> target,
                 summary |-> call[p].summary, input |-> call[p].hist,
                 history |-> <<>>, messages |-> <<>>,
                 run |-> [r EXCEPT !.pc = "thrown",
                                   !.steps = Append(r.steps, "stitch")],
                 stitchIn |-> messages,
                 adapterIn |-> <<>>,
                 payload |-> Payload(<<>>, Undefined, Undefined)]
      /\ rollingHistory' = HistoryAfterCompile(call[p])
      /\ call' = [call EXCEPT ![p] = IdleCall]
      /\ pipe' = [pipe EXCEPT ![p] = IdlePipe]
      /\ UNCHANGED <<config, externalTokenUsage, suppressNext, layers, chain,
                     hintStale, chefConfig, pruner, applied,
                     snap, cleared>>

\* the memory store answers (line 399); the sandwich (line 402) and either
\* the transform hook (lines 405-407) or the rest of the call
MemoryRead(p, target) ==
  /\ pipe[p].pc = "memory"
  /\ LET r0 == pipe[p]
         messages == Sandwich(ToIrAll(topLayer), getMemoryMessages,
                              r0.compressedHistory, r0.dynamicState)
         r == [r0 EXCEPT !.sandwich = messages,
                         !.steps = Append(r0.steps, "assemble")]
     IN  IF chefConfig.transformContext
         THEN /\ pipe' = [pipe EXCEPT ![p] =
                   [r EXCEPT !.pc = "transform",
                             !.steps = Append(r.steps, "transform"),
                             !.transformCalls = r.transformCalls + 1,
                             !.transformIn = messages]]
              /\ last' = NoLast
              /\ UNCHANGED <<config, externalTokenUsage, suppressNext,
                             rollingHistory, layers, call, chain, hintStale,
                             chefConfig, pruner, applied,
                             snap, cleared>>
         ELSE Finish(p, r, messages, target)

\* the transform hook returns
TransformReturns(p, how, target) ==
  /\ pipe[p].pc = "transform"
  /\ Finish(p, pipe[p], transformContext(how, pipe[p].transformIn), target)

\* ContextChef.registerTools -> Pruner.registerTools (part_013, 74-77)
RegisterTools(tools) ==
  /\ pruner' = [pruner EXCEPT !.flatTools = tools]
  /\ last' = NoLast
  /\ UNCHANGED <<config, externalTokenUsage, suppressNext, rollingHistory,
                 layers, call, chain, hintStale, chefConfig, pipe, applied,
                 snap, cleared>>

\* ContextChef.registerNamespaces -> Pruner.registerNamespaces (128-131)
RegisterNamespaces(groups) ==
  /\ pruner' = [pruner EXCEPT !.namespaces = groups]
  /\ last' = NoLast
  /\ UNCHANGED <<config, externalTokenUsage, suppressNext, rollingHistory,
                 layers, call, chain, hintStale, chefConfig, pipe, applied,
                 snap, cleared>>

\* ContextChef.registerToolkits -> Pruner.registerToolkits (140-143)
RegisterToolkits(toolkits) ==
  /\ pruner' = [pruner EXCEPT !.lazyToolkits = toolkits]
  /\ last' = NoLast
  /\ UNCHANGED <<config, externalTokenUsage, suppressNext, rollingHistory,
                 layers, call, chain, hintStale, chefConfig, pipe, applied,
                 snap, cleared>>

\* the controller configurations of the orchestrator with its hooks
PipelineConfigs ==
  {c \in TokenConfigs : /\ c.preserveRecentTokens = Null
                        /\ c.tokenizer = "heuristic"
                        /\ c.compressionModel
                        /\ ~c.onCompress}

\* the texts an onBeforeCompile hook may return: nothing, or a snippet
Injected == {<<>>, <<"<rag_result>snippet</rag_result>">>}

InitPipeline ==
  /\ config \in PipelineConfigs
  /\ externalTokenUsage = Null
  /\ suppressNext = FALSE
  /\ topLayer = <<>>
  /\ rollingHistory = <<>>
  /\ dynamicState = <<>>
  /\ dynamicStatePlacement = "last_user"
  /\ rawDynamicXml = ""
  /\ call = [p \in Callers |-> IdleCall]
  /\ last = NoLast
  /\ chain = NoChain
  /\ hintStale = FALSE
  /\ chefConfig \in [onBeforeCompile : BOOLEAN, transformContext : BOOLEAN,
                     memoryStore : MemoryStores]
  /\ pruner = NoTools
  /\ pipe = [p \in Callers |-> IdlePipe]
  /\ applied = NotApplied
  /\ snap = NoSnap
  /\ cleared = FALSE

\* one caller that sets its layers and its history and compiles, and awaits
\* each compile call before its next operation
NextPipeline ==
  \/ Quiet /\ \E history \in Histories : UseRollingHistory(history)
  \/ Quiet /\ \E messages \in {<<>>, <<SystemPrompt>>} : SetTopLayer(messages)
  \/ Quiet /\ \E placement \in {"system", "last_user"} :
                SetDynamicState(placement)
  \/ CompileStart(1)
  \/ \E p \in Callers : SummarizerResolves(p)
  \/ \E p \in Callers : SummarizerRejects(p)
  \/ \E p \in Callers : BeforeCompile(p)
  \/ \E p \in Callers, injected \in Injected :
       OnBeforeCompileReturns(p, injected)
  \/ \E p \in Callers, target \in Targets : MemoryRead(p, target)
  \/ \E p \in Callers, how \in Transforms, target \in Targets :
       TransformReturns(p, how, target)

SpecPipeline == InitPipeline /\ [][NextPipeline]_vars

----------------------------------------------------------------------------
(* Properties of compile() *)

\* the steps a compile call that returns a payload takes
StepsOfCompile ==
  <<"compress">>
    \o (IF chefConfig.onBeforeCompile THEN <<"hook">> ELSE <<>>)
    \o <<"assemble">>
    \o (IF chefConfig.transformContext THEN <<"transform">> ELSE <<>>)
    \o <<"stitch", "adapt">>

\* C11: within one compile call the steps run in a fixed order: the
\* compaction first (no later step begins before compress has returned),
\* then the pre-compile hook, invoked at most once and handed the compacted
\* history, then the transform hook, then the Stitcher, then the adapter;
\* and the sequence handed on is the static layer, then the memory block if
\* there is one, then the compacted history, then the ephemeral layer
C11_StepOrder ==
  /\ \A p \in Callers : pipe[p].pc # "idle" =>
       /\ Returned(p)
       /\ pipe[p].hookCalls <= 1
       /\ pipe[p].compressedHistory = ToIrAll(call[p].result)
  /\ last.outcome = "payload" =>
       LET r == last.run
           compacted == ToIrAll(last.history)
           memoryBlock == IF chefConfig.memoryStore = "rule" THEN 1 ELSE 0
           n == Len(topLayer)
       IN  /\ r.steps = StepsOfCompile
           /\ r.hookCalls = (IF chefConfig.onBeforeCompile THEN 1 ELSE 0)
           /\ r.hookCalls = 1 => r.hookContext.rollingHistory = compacted
           /\ Len(r.sandwich) =
                n + memoryBlock + Len(compacted) + Len(dynamicState)
           /\ SubSeq(r.sandwich, 1, n) = ToIrAll(topLayer)
           /\ memoryBlock = 1 =>
                r.sandwich[n + 1] = getMemoryMessages[1]
           /\ SubSeq(r.sandwich, n + memoryBlock + 1,
                     n + memoryBlock + Len(compacted)) = compacted
           /\ SubSeq(r.sandwich, n + memoryBlock + Len(compacted) + 1,
                     Len(r.sandwich)) = r.dynamicState
           /\ IF chefConfig.transformContext
              THEN r.transformCalls = 1 /\ r.transformIn = r.sandwich
              ELSE r.transformCalls = 0 /\ last.stitchIn = r.sandwich
           /\ last.adapterIn = last.messages

\* a compile call with both hooks, a memory block, a static layer, an
\* ephemeral layer and a compaction has returned its payload
C11_Witness ==
  /\ last.outcome = "payload"
  /\ last.summary # NoMsg
  /\ last.run.hookCalls = 1
  /\ last.run.transformCalls = 1
  /\ chefConfig.memoryStore = "rule"
  /\ topLayer # <<>>
  /\ dynamicState # <<>>
  /\ Len(last.run.sandwich) = 5

----------------------------------------------------------------------------
(* The modules applied on their own: the inputs are drawn in the initial
   state, an action applies one function to them and keeps its result *)

\* the longest message sequence handed to a module
MaxMsgs == 3

MessageLists(pool) == UNION {[1..n -> pool] : n \in 0..MaxMsgs}

\* a ContextChef that is constructed and never used
Unused ==
  /\ config = CHOOSE c \in PipelineConfigs : TRUE
  /\ externalTokenUsage = Null
  /\ suppressNext = FALSE
  /\ topLayer = <<>>
  /\ rollingHistory = <<>>
  /\ dynamicState = <<>>
  /\ dynamicStatePlacement = "last_user"
  /\ rawDynamicXml = ""
  /\ call = [p \in Callers |-> IdleCall]
  /\ last = NoLast
  /\ chain = NoChain
  /\ hintStale = FALSE
  /\ chefConfig = NoHooks
  /\ pruner = NoTools
  /\ pipe = [p \in Callers |-> IdlePipe]
  /\ snap = NoSnap
  /\ cleared = FALSE

unused == <<config, externalTokenUsage, suppressNext, rollingHistory, layers,
            call, last, chain, hintStale, chefConfig, pruner, pipe, snap,
            cleared>>

\* the messages handed to the Stitcher: the roles of the IR, a message whose
\* keys were inserted in another order, and messages with further keys
StitchPool ==
  {IrMsg("user", <<"hi">>),
   Obj(<<<<"name", Str(<<"bob">>)>>, <<"content", Str(<<"list the files">>)>>,
         <<"role", Str(<<"user">>)>>>>),
   IrMsg("assistant", <<"ok">>),
   SetProp(IrMsg("system", <<"You are an expert.">>),
           "_cache_breakpoint", Bool(TRUE)),
   Obj(<<<<"role", Str(<<"tool">>)>>, <<"content", Str(<<"a.ts">>)>>,
         <<"tool_call_id", Str(<<"call_1">>)>>>>)}

\* the texts handed as dynamicStateXml
StateXmls == {<<>>, <<"<task>ship</task>">>}

InitStitch ==
  /\ Unused
  /\ applied \in [fn : {"none"}, messages : MessageLists(StitchPool),
                  options : {StitchOptions(xml, placement) :
                               xml \in StateXmls,
                               placement \in {"system", "last_user"}}]

\* new Stitcher().compile(messages, options)
ApplyStitcherCompile ==
  /\ applied.fn = "none"
  /\ applied' = [fn |-> "Stitcher.compile", messages |-> applied.messages,
                 options |-> applied.options,
                 out |-> StitcherCompile(applied.messages, applied.options)]
  /\ UNCHANGED unused

NextStitch == ApplyStitcherCompile

SpecStitch == InitStitch /\ [][NextStitch]_vars

----------------------------------------------------------------------------
(* Properties of the Stitcher *)

RECURSIVE Unordered(_)

\* a value without the order of its keys: an object as the set of its
\* properties, an array with its elements in their order
Unordered(value) ==
  CASE value.t = "object" ->
         [t |-> "object",
          v |-> {<<value.v[i][1], Unordered(value.v[i][2])>> :
                   i \in 1..Len(value.v)}]
    [] value.t = "array" ->
         [t |-> "array",
          v |-> [i \in 1..Len(value.v) |-> Unordered(value.v[i])]]
    [] OTHER -> value

\* the injected text in its delimiter block
WrappedBlock(xml) ==
  <<"<dynamic_state>\n">> \o xml
    \o <<"\n</dynamic_state>\nAbove is the current system state. Use it to guide your next action.">>

UsersOf(messages) ==
  {i \in 1..Len(messages) : Get(messages[i], "role") = Str(<<"user">>)}

\* C12: with placement 'last_user' and a non-empty injected text, a sequence
\* with a user message comes out with the same length and only its last user
\* message differs, its content being the original content followed by the
\* wrapped block; a sequence without a user message comes out with exactly
\* one new user message, holding only the block, appended at its end; with
\* placement 'system' or an empty text no message is added or changed; every
\* other message keeps its content and its place
C12_InjectionRule ==
  applied.fn = "Stitcher.compile" =>
    LET in    == applied.messages
        out   == applied.out.messages
        xml   == applied.options.dynamicStateXml
        users == UsersOf(in)
        same(i) == Unordered(out[i]) = Unordered(in[i])
    IN  IF applied.options.placement = "last_user" /\ xml # <<>>
        THEN IF users # {}
             THEN LET lastUser == CHOOSE i \in users : \A j \in users : j <= i
                  IN  /\ Len(out) = Len(in)
                      /\ \A i \in 1..Len(in) : i # lastUser => same(i)
                      /\ Get(out[lastUser], "content") =
                           Str(Get(in[lastUser], "content").v \o <<"\n\n">>
                                 \o WrappedBlock(xml))
                      /\ Unordered(WithoutKeys(out[lastUser], {"content"})) =
                           Unordered(WithoutKeys(in[lastUser], {"content"}))
             ELSE /\ Len(out) = Len(in) + 1
                  /\ \A i \in 1..Len(in) : same(i)
                  /\ Unordered(out[Len(out)]) =
                       Unordered(IrMsg("user", WrappedBlock(xml)))
        ELSE /\ Len(out) = Len(in)
             /\ \A i \in 1..Len(in) : same(i)

\* the Stitcher has injected a text into a sequence of three messages whose
\* first and last messages are user messages
C12_Witness ==
  /\ applied.fn = "Stitcher.compile"
  /\ applied.options.placement = "last_user"
  /\ applied.options.dynamicStateXml # <<>>
  /\ Len(applied.messages) = 3
  /\ UsersOf(applied.messages) = {1, 3}
  /\ applied.out.messages[3] # applied.messages[3]

----------------------------------------------------------------------------
(* The canonicalization applied on its own *)

RECURSIVE Flip(_)

\* the same value, the properties of every object in it set in the opposite
\* order
Flip(value) ==
  CASE value.t = "object" ->
         FromEntries([i \in 1..Len(value.v) |->
                        LET q == value.v[Len(value.v) + 1 - i]
                        IN  <<q[1], Flip(q[2])>>])
    [] value.t = "array" ->
         Arr([i \in 1..Len(value.v) |-> Flip(value.v[i])])
    [] OTHER -> value

\* the objects with the properties of obj, set in every order
Insertions(obj) ==
  {FromEntries([i \in 1..Len(obj.v) |-> obj.v[f[i]]]) :
     f \in Permutations(1..Len(obj.v))}

\* the messages with the keys and values of msg: its own keys in every
\* order, the keys of the objects in it in one order or in the opposite one
Variants(msg) ==
  Insertions(msg)
    \cup Insertions(Obj([i \in 1..Len(msg.v) |->
                           <<msg.v[i][1], Flip(msg.v[i][2])>>]))

ToolCall(id, name, arguments) ==
  Obj(<<<<"id", Str(<<id>>)>>, <<"type", Str(<<"function">>)>>,
        <<"function", Obj(<<<<"name", Str(<<name>>)>>,
                            <<"arguments", Str(arguments)>>>>)>>>>)

\* an assistant message with two tool calls and an extension key whose value
\* has integer-like keys; a user message with a cache marker and an
\* extension key
CanonBases ==
  {Obj(<<<<"role", Str(<<"assistant">>)>>, <<"content", Str(<<>>)>>,
         <<"tool_calls", Arr(<<ToolCall("call_1", "read_file", <<"{}">>),
                               ToolCall("call_2", "get_time", <<"{}">>)>>)>>,
         <<"x_meta", Obj(<<<<"9", Str(<<"nine">>)>>, <<"10", Str(<<"ten">>)>>,
                           <<"b", Str(<<"2">>)>>, <<"a", Str(<<"1">>)>>>>)>>>>),
   Obj(<<<<"role", Str(<<"user">>)>>, <<"content", Str(<<"hi">>)>>,
         <<"_cache_breakpoint", Bool(TRUE)>>,
         <<"data", Obj(<<<<"b", Obj(<<<<"name", Str(<<"n">>)>>,
                                      <<"id", Str(<<"i">>)>>>>)>>,
                         <<"a", Str(<<"1">>)>>>>)>>>>)}

InitCanon ==
  /\ Unused
  /\ \E base \in CanonBases :
       applied \in [fn : {"none"}, m1 : Variants(base), m2 : Variants(base)]

\* Stitcher.orderKeysDeterministically and Stitcher.stringifyPayload on two
\* messages, and the canonicalization of the list of the two
ApplyOrderKeys ==
  /\ applied.fn = "none"
  /\ applied' =
       [fn    |-> "orderKeysDeterministically",
        m1    |-> applied.m1,
        m2    |-> applied.m2,
        out1  |-> orderKeysDeterministically(applied.m1),
        out2  |-> orderKeysDeterministically(applied.m2),
        text1 |-> stringifyPayload(applied.m1),
        text2 |-> stringifyPayload(applied.m2),
        list  |-> orderKeysDeterministically(Arr(<<applied.m1, applied.m2>>))]
  /\ UNCHANGED unused

\* Stitcher.orderKeysDeterministically on its own result
ApplyOrderKeysAgain ==
  /\ applied.fn = "orderKeysDeterministically"
  /\ applied' =
       [fn     |-> "orderKeysDeterministically twice",
        m1     |-> applied.m1,
        m2     |-> applied.m2,
        out1   |-> applied.out1,
        out2   |-> applied.out2,
        text1  |-> applied.text1,
        text2  |-> applied.text2,
        list   |-> applied.list,
        again1 |-> orderKeysDeterministically(applied.out1),
        again2 |-> orderKeysDeterministically(applied.out2)]
  /\ UNCHANGED unused

NextCanon == ApplyOrderKeys \/ ApplyOrderKeysAgain

SpecCanon == InitCanon /\ [][NextCanon]_vars

----------------------------------------------------------------------------
(* Properties of the canonicalization *)

\* C13: canonicalizing a canonical message yields the same message, and two
\* messages with the same keys and values, those of the objects in them
\* included, canonicalize to the same message and to identical serialized
\* text whatever the order in which their keys were inserted
C13_IdempotentOrderIndependent ==
  /\ applied.fn # "none" /\ Unordered(applied.m1) = Unordered(applied.m2) =>
       /\ applied.text1 = applied.text2
       /\ applied.out1 = applied.out2
  /\ applied.fn = "orderKeysDeterministically twice" =>
       /\ applied.again1 = applied.out1
       /\ applied.again2 = applied.out2
       /\ JSONstringify(applied.again1) = applied.text1

\* two messages whose keys are in different orders, at the top and in a
\* nested object, have been canonicalized twice
C13_Witness ==
  /\ applied.fn = "orderKeysDeterministically twice"
  /\ Keys(applied.m1) # Keys(applied.m2)
  /\ Has(applied.m1, "x_meta")
  /\ Get(applied.m1, "x_meta") # Get(applied.m2, "x_meta")
  /\ Get(applied.m1, "tool_calls") # Get(applied.m2, "tool_calls")
  /\ applied.out1 # applied.m1
  /\ applied.text1 = applied.text2

\* C14: the canonical message has exactly the keys and the values of the
\* input, extension keys included, and the elements of every array, the
\* list of messages and tool_calls, are in their original order: only the
\* order of the keys of objects changes
C14_ContentPreserved ==
  applied.fn # "none" =>
    /\ Unordered(applied.out1) = Unordered(applied.m1)
    /\ Unordered(applied.out2) = Unordered(applied.m2)
    /\ {applied.out1.v[i][1] : i \in 1..Len(applied.out1.v)} =
         {applied.m1.v[i][1] : i \in 1..Len(applied.m1.v)}
    /\ Get(applied.out1, "tool_calls").t = "array" =>
         \A i \in 1..Len(Get(applied.m1, "tool_calls").v) :
           Unordered(Get(applied.out1, "tool_calls").v[i]) =
             Unordered(Get(applied.m1, "tool_calls").v[i])
    /\ applied.list = Arr(<<applied.out1, applied.out2>>)

\* a message with two tool calls and an extension key, its keys not in the
\* canonical order, has been canonicalized
C14_Witness ==
  /\ applied.fn = "orderKeysDeterministically"
  /\ Has(applied.m1, "x_meta")
  /\ Len(Get(applied.m1, "tool_calls").v) = 2
  /\ applied.out1 # applied.m1
  /\ applied.m1 # applied.m2
  /\ Has(applied.out1, "x_meta")

----------------------------------------------------------------------------
(* The adapters applied on their own *)

Marked(msg) == SetProp(msg, "_cache_breakpoint", Bool(TRUE))

\* the messages handed to the adapters: every role, plain and with the cache
\* marker, assistant messages with reasoning fields, with tool calls and
\* with an empty list of tool calls, tool results with a plain and with a
\* JSON content
AdaptPool ==
  {IrMsg("system", <<"You are an expert.">>),
   Marked(IrMsg("system", <<"Be brief.">>)),
   IrMsg("user", <<"hi">>),
   Marked(IrMsg("user", <<"list the files">>)),
   IrMsg("assistant", <<"Sure">>),
   FromEntries(<<<<"role", Str(<<"assistant">>)>>,
                 <<"content", Str(<<"Here">>)>>,
                 <<"thinking", Obj(<<<<"thinking", Str(<<"hmm">>)>>,
                                     <<"signature", Str(<<"sig">>)>>>>)>>,
                 <<"redacted_thinking", Obj(<<<<"data", Str(<<"xx">>)>>>>)>>>>),
   Marked(FromEntries(<<<<"role", Str(<<"assistant">>)>>,
                        <<"content", Str(<<>>)>>,
                        <<"tool_calls",
                          Arr(<<ToolCall("call_1", "read_file",
                                         <<"{\"path\":\"a.ts\"}">>)>>)>>,
                        <<"thinking", Obj(<<<<"thinking", Str(<<"plan">>)>>>>)>>>>)),
   FromEntries(<<<<"role", Str(<<"assistant">>)>>,
                 <<"content", Str(<<"Let me">>)>>,
                 <<"tool_calls", Arr(<<>>)>>>>),
   FromEntries(<<<<"role", Str(<<"tool">>)>>,
                 <<"content", Str(<<"a.ts">>)>>,
                 <<"tool_call_id", Str(<<"call_1">>)>>>>),
   Marked(FromEntries(<<<<"role", Str(<<"tool">>)>>,
                        <<"content", Str(<<"{}">>)>>,
                        <<"name", Str(<<"read_file">>)>>,
                        <<"tool_call_id", Str(<<"call_1">>)>>>>))}

InitAdapt ==
  /\ Unused
  /\ applied \in [fn : {"none"}, messages : MessageLists(AdaptPool)]

\* new OpenAIAdapter().compile(messages)
ApplyOpenAIAdapter ==
  /\ applied.fn = "none"
  /\ applied' = [fn |-> "OpenAIAdapter.compile",
                 messages |-> applied.messages,
                 out |-> OpenAIAdapterCompile(applied.messages)]
  /\ UNCHANGED unused

\* new AnthropicAdapter().compile(messages)
ApplyAnthropicAdapter ==
  /\ applied.fn = "none"
  /\ applied' = [fn |-> "AnthropicAdapter.compile",
                 messages |-> applied.messages,
                 out |-> AnthropicAdapterCompile(applied.messages)]
  /\ UNCHANGED unused

\* new GeminiAdapter().compile(messages)
ApplyGeminiAdapter ==
  /\ applied.fn = "none"
  /\ applied' = [fn |-> "GeminiAdapter.compile",
                 messages |-> applied.messages,
                 out |-> GeminiAdapterCompile(applied.messages)]
  /\ UNCHANGED unused

NextAdapt ==
  \/ ApplyOpenAIAdapter
  \/ ApplyAnthropicAdapter
  \/ ApplyGeminiAdapter

SpecAdapt == InitAdapt /\ [][NextAdapt]_vars

----------------------------------------------------------------------------
(* Properties of the adapters *)

\* an assistant turn without tool calls
PrefillTurn(msg) ==
  /\ Get(msg, "role") = Str(<<"assistant">>)
  /\ \/ Get(msg, "tool_calls").t = "undefined"
     \/ Get(msg, "tool_calls").v = <<>>

InternalKeys == {"_cache_breakpoint", "thinking", "redacted_thinking"}

\* a message without its internal-only fields and without its key order
Visible(msg) == Unordered(WithoutKeys(msg, InternalKeys))

EndsWith(pieces, suffix) ==
  /\ Len(pieces) >= Len(suffix)
  /\ SubSeq(pieces, Len(pieces) - Len(suffix) + 1, Len(pieces)) = suffix

\* the indices of the messages with one of the roles
WithRole(messages, roles) ==
  {i \in 1..Len(messages) : Get(messages[i], "role").v \in roles}

Latest(indices) == CHOOSE i \in indices : \A j \in indices : j <= i

\* C15: whenever the input of the OpenAI adapter ends with an assistant turn
\* without tool calls, the output omits that turn and its content, wrapped
\* in the instruction template, is appended to the nearest user or system
\* turn before it; when there is no such turn a new turn carrying the
\* instruction is created; the prefill text is therefore always in the
\* output, and every other turn is unchanged
C15_PrefillAlwaysPresent ==
  /\ applied.fn = "OpenAIAdapter.compile"
  /\ applied.messages # <<>>
  /\ PrefillTurn(applied.messages[Len(applied.messages)])
  => LET in      == applied.messages
         out     == applied.out.messages
         n       == Len(in)
         note    == getPrefillEnforcement(Get(in[n], "content").v)
         targets == WithRole(SubSeq(in, 1, n - 1), {<<"user">>, <<"system">>})
     IN  IF targets # {}
         THEN /\ Len(out) = n - 1
              /\ \A i \in 1..(n - 1) :
                   IF i = Latest(targets)
                   THEN /\ Get(out[i], "content") =
                             Str(Get(in[i], "content").v \o <<"\n\n">> \o note)
                        /\ Unordered(WithoutKeys(out[i], {"content"})) =
                             Visible(WithoutKeys(in[i], {"content"}))
                   ELSE Unordered(out[i]) = Visible(in[i])
         ELSE /\ Len(out) = n
              /\ \A i \in 1..(n - 1) : Unordered(out[i]) = Visible(in[i])
              /\ EndsWith(Get(out[n], "content").v, note)


\* the places of a Gemini payload whose text ends with the note: pairs of an
\* element of contents and a part of it, and parts of the system instruction
NotedParts(out, note) ==
  {<<i, j>> \in (1..Len(out.messages)) \X (1..MaxMsgs) :
     /\ j <= Len(Get(out.messages[i], "parts").v)
     /\ LET part == Get(out.messages[i], "parts").v[j]
        IN  HasText(part) /\ EndsWith(Get(part, "text").v, note)}

NotedSystemParts(out, note) ==
  IF out.systemInstruction.t = "undefined" THEN {}
  ELSE LET parts == Get(out.systemInstruction, "parts").v
       IN  {j \in 1..Len(parts) : EndsWith(Get(parts[j], "text").v, note)}

\* C16: whenever the sequence converted for Gemini ends with a model turn of
\* a single text part, that turn is removed and its text, wrapped in the
\* instruction template, is injected into the nearest user turn before it,
\* or into the system instruction when there is no turn to take it; in every
\* such case the prefill text is in the output exactly once
C16_PrefillExactlyOnce ==
  LET in   == applied.messages
      chat == SelectSeq(in, LAMBDA msg : Get(msg, "role") # Str(<<"system">>))
      n    == Len(chat)
  IN  /\ applied.fn = "GeminiAdapter.compile"
      /\ chat # <<>>
      /\ PrefillTurn(chat[n])
      => LET out   == applied.out
             note  == getPrefillEnforcement(Get(chat[n], "content").v)
             users == WithRole(SubSeq(chat, 1, n - 1), {<<"user">>})
         IN  /\ Len(out.messages) = n - 1
             /\ Cardinality(NotedParts(out, note))
                  + Cardinality(NotedSystemParts(out, note)) = 1
             /\ IF users # {}
                THEN NotedParts(out, note) = {<<Latest(users), 1>>}
                ELSE NotedParts(out, note) = {}


\* the number of blocks of the system field of a payload
SystemBlocks(out) == IF out.system.t = "undefined" THEN 0 ELSE Len(out.system.v)

\* the text blocks of an Anthropic message
TextsOf(message) ==
  LET blocks == Get(message, "content").v
  IN  SelectSeq([i \in 1..Len(blocks) |->
                   IF Get(blocks[i], "type") = Str(<<"text">>)
                   THEN Get(blocks[i], "text") ELSE Undefined],
                LAMBDA text : text.t # "undefined")

\* C17: the Anthropic adapter never removes or rewrites a turn for prefill:
\* a trailing assistant turn is the last message of the output with its
\* content unmodified, and for every input the number of system blocks plus
\* the number of output messages is the number of input messages, the turns
\* that are not system turns being in their original order
C17_PrefillPassThrough ==
  applied.fn = "AnthropicAdapter.compile" =>
    LET in   == applied.messages
        out  == applied.out
        chat == SelectSeq(in, LAMBDA msg : Get(msg, "role") # Str(<<"system">>))
        sys  == SelectSeq(in, LAMBDA msg : Get(msg, "role") = Str(<<"system">>))
    IN  /\ SystemBlocks(out) + Len(out.messages) = Len(in)
        /\ SystemBlocks(out) = Len(sys)
        /\ \A i \in 1..Len(sys) : Get(out.system.v[i], "text") = Get(sys[i], "content")
        /\ Len(out.messages) = Len(chat)
        /\ \A i \in 1..Len(chat) :
             /\ Get(out.messages[i], "role") =
                  (IF Get(chat[i], "role") = Str(<<"tool">>)
                   THEN Str(<<"user">>) ELSE Get(chat[i], "role"))
             /\ IF Get(chat[i], "role") = Str(<<"tool">>)
                THEN Get(Get(out.messages[i], "content").v[1], "content") =
                       Get(chat[i], "content")
                ELSE TextsOf(out.messages[i]) = <<Get(chat[i], "content")>>
        /\ in # <<>> /\ PrefillTurn(in[Len(in)]) =>
             LET lastOut == out.messages[Len(out.messages)]
             IN  /\ Get(lastOut, "role") = Str(<<"assistant">>)
                 /\ TextsOf(lastOut) = <<Get(in[Len(in)], "content")>>

\* the Anthropic adapter has converted three messages, a system message
\* among them, that end with an assistant turn without tool calls
C17_Witness ==
  /\ applied.fn = "AnthropicAdapter.compile"
  /\ Len(applied.messages) = 3
  /\ PrefillTurn(applied.messages[3])
  /\ SystemBlocks(applied.out) = 1
  /\ Len(applied.out.messages) = 2
  /\ Get(applied.out.messages[2], "role") = Str(<<"assistant">>)


RECURSIVE KeysIn(_)

\* the keys of a value, those of the objects in it included
KeysIn(value) ==
  CASE value.t = "object" ->
         {value.v[i][1] : i \in 1..Len(value.v)}
           \cup UNION {KeysIn(value.v[i][2]) : i \in 1..Len(value.v)}
    [] value.t = "array" -> UNION {KeysIn(value.v[i]) : i \in 1..Len(value.v)}
    [] OTHER -> {}

RECURSIVE StringsIn(_)

\* the texts in a value
StringsIn(value) ==
  CASE value.t = "object" -> UNION {StringsIn(value.v[i][2]) : i \in 1..Len(value.v)}
    [] value.t = "array"  -> UNION {StringsIn(value.v[i]) : i \in 1..Len(value.v)}
    [] value.t = "string" -> {value.v}
    [] OTHER -> {}

\* the reasoning texts of the messages
ReasoningOf(messages) ==
  UNION {StringsIn(Get(messages[i], "thinking"))
           \cup StringsIn(Get(messages[i], "redacted_thinking")) :
         i \in 1..Len(messages)}

\* the messages, the system field and the system instruction of a payload
PayloadValues(out) == <<Arr(out.messages), out.system, out.systemInstruction>>

PayloadKeys(out) == UNION {KeysIn(PayloadValues(out)[i]) : i \in 1..3}

Ephemeral(block) ==
  /\ Has(block, "cache_control")
  /\ Get(block, "cache_control") = Obj(<<<<"type", Str(<<"ephemeral">>)>>>>)

\* C19: for every input message of the Anthropic adapter whose cache marker
\* is true, whatever its role and whether it has tool calls or not, the
\* system block or a content block of the message it becomes carries the
\* ephemeral cache annotation; and no block of an unmarked message carries it
C19_MarkedBlocksAnnotated ==
  applied.fn = "AnthropicAdapter.compile" =>
    LET in   == applied.messages
        out  == applied.out
        isSys(i) == Get(in[i], "role") = Str(<<"system">>)
        \* the place of message i among the system blocks or the messages
        place(i) == Cardinality({j \in 1..i : isSys(j) = isSys(i)})
        blocks(i) == IF isSys(i) THEN <<out.system.v[place(i)]>>
                     ELSE Get(out.messages[place(i)], "content").v
    IN  \A i \in 1..Len(in) :
          IF Get(in[i], "_cache_breakpoint") = Bool(TRUE)
          THEN \E k \in 1..Len(blocks(i)) : Ephemeral(blocks(i)[k])
          ELSE \A k \in 1..Len(blocks(i)) : ~Has(blocks(i)[k], "cache_control")

----------------------------------------------------------------------------
(* The orchestrator with registered tools *)

InitTools ==
  /\ Unused
  /\ applied = NotApplied
  /\ snap = NoSnap
  /\ cleared = FALSE

\* one caller without hooks that registers tools, namespaces and toolkits,
\* sets its history and compiles, and awaits each compile call before its
\* next operation
NextTools ==
  \/ Quiet /\ \E tools \in ToolLists : RegisterTools(tools)
  \/ Quiet /\ \E groups \in GroupLists : RegisterNamespaces(groups)
  \/ Quiet /\ \E toolkits \in GroupLists : RegisterToolkits(toolkits)
  \/ Quiet /\ \E history \in Histories : UseRollingHistory(history)
  \/ CompileStart(1)
  \/ \E p \in Callers : SummarizerResolves(p)
  \/ \E p \in Callers : SummarizerRejects(p)
  \/ \E p \in Callers : BeforeCompile(p)
  \/ \E p \in Callers, target \in Targets : MemoryRead(p, target)

SpecTools == InitTools /\ [][NextTools]_vars

----------------------------------------------------------------------------
(* Properties of the tools of a payload *)

\* the tool definitions registered with the orchestrator: the flat tools and
\* the tools of the namespaces and of the toolkits
Registered ==
  {pruner.flatTools[i] : i \in 1..Len(pruner.flatTools)}
    \cup UNION {{Get(pruner.namespaces[i], "tools").v[j] :
                   j \in 1..Len(Get(pruner.namespaces[i], "tools").v)} :
                i \in 1..Len(pruner.namespaces)}
    \cup UNION {{Get(pruner.lazyToolkits[i], "tools").v[j] :
                   j \in 1..Len(Get(pruner.lazyToolkits[i], "tools").v)} :
                i \in 1..Len(pruner.lazyToolkits)}

\* C20: the compiled payload has a tools field if and only if at least one
\* tool definition is registered, and every tool definition in it is a
\* registered definition without its internal-only tags
C20_ToolsWithoutTags ==
  last.outcome = "payload" =>
    LET tools == last.payload.tools
    IN  /\ tools.t # "undefined" <=> Registered # {}
        /\ tools.t # "undefined" =>
             \A i \in 1..Len(tools.v) :
               /\ ~Has(tools.v[i], "tags")
               /\ \E definition \in Registered :
                    Unordered(tools.v[i]) =
                      Unordered(WithoutKeys(definition, {"tags"}))

----------------------------------------------------------------------------
(* The synchronous compile(): src/src/index.ts, lines 232-253 *)

\* what a transformContext hook hands back to a synchronous caller: the
\* messages, or a promise of them
HookReturns == {"messages", "promise"}

\* lines 236-242: the hook is called once; a promise makes compile throw
TransformSyncIgnoresPromise(messages, how, returned) ==
  IF chefConfig.transformContext /\ returned = "messages"
  THEN [threw |-> FALSE, calls |-> 1, messages |-> transformContext(how, messages)]
  ELSE [threw |-> FALSE, calls |-> IF chefConfig.transformContext THEN 1 ELSE 0,
        messages |-> messages]

TransformSync(messages, how, returned) ==
  IF ~chefConfig.transformContext
  THEN [threw |-> FALSE, calls |-> 0, messages |-> messages]
  ELSE IF returned = "promise"
  THEN [threw |-> TRUE, calls |-> 1, messages |-> <<>>]
  ELSE [threw |-> FALSE, calls |-> 1, messages |-> transformContext(how, messages)]

\* ContextChef.compile of src/src/index.ts: one step, without the Janitor
CompileSync(target, how, returned) ==
  LET sandwich == ToIrAll(topLayer) \o ToIrAll(rollingHistory)
                    \o ToIrAll(dynamicState)
      transformed == TransformSync(sandwich, how, returned)
      rawPayload == StitcherCompile(transformed.messages,
                      StitchOptions(StitchXml(<<>>), dynamicStatePlacement))
      thrown == IF transformed.threw THEN "transformContext is async"
                ELSE IF ~KnownTarget(target) THEN "Unsupported target provider"
                ELSE "none"
  IN  /\ last' = [outcome |-> IF thrown = "none" THEN "payload" ELSE "error",
                  error |-> thrown, target |-> target, returned |-> returned,
                  sandwich |-> sandwich, transformCalls |-> transformed.calls,
                  stitchIn |-> IF transformed.threw THEN <<>>
                               ELSE transformed.messages,
                  expected |-> transformContext(how, sandwich),
                  payload |-> IF thrown = "none"
                              THEN WithTools(AdapterCompile(target,
                                               rawPayload.messages),
                                             getPrunerTools)
                              ELSE Payload(<<>>, Undefined, Undefined)]
      /\ UNCHANGED <<config, externalTokenUsage, suppressNext, rollingHistory,
                     layers, call, chain, hintStale, rest>>

\* new ContextChef({ transformContext }), or without the hook
InitSync ==
  /\ config = CHOOSE c \in PipelineConfigs : TRUE
  /\ externalTokenUsage = Null
  /\ suppressNext = FALSE
  /\ topLayer = <<>>
  /\ rollingHistory = <<>>
  /\ dynamicState = <<>>
  /\ dynamicStatePlacement = "last_user"
  /\ rawDynamicXml = ""
  /\ call = [p \in Callers |-> IdleCall]
  /\ last = NoLast
  /\ chain = NoChain
  /\ hintStale = FALSE
  /\ chefConfig \in [onBeforeCompile : {FALSE}, transformContext : BOOLEAN,
                     memoryStore : {"none"}]
  /\ pruner = NoTools
  /\ pipe = [p \in Callers |-> IdlePipe]
  /\ applied = NotApplied
  /\ snap = NoSnap
  /\ cleared = FALSE

NextSync ==
  \/ \E history \in Histories : UseRollingHistory(history)
  \/ \E messages \in {<<>>, <<SystemPrompt>>} : SetTopLayer(messages)
  \/ \E placement \in {"system", "last_user"} : SetDynamicState(placement)
  \/ \E target \in Targets, how \in Transforms, returned \in HookReturns :
       CompileSync(target, how, returned)

SpecSync == InitSync /\ [][NextSync]_vars

----------------------------------------------------------------------------
(* Properties of the configuration errors *)

\* a synchronous compile call has ended
SyncEnded == last.outcome \in {"payload", "error"}

\* C21: a compile call that names an unknown target provider, and a
\* synchronous compile call whose transform hook returns a promise, each end
\* in an error and return no payload; the hook is called once, not again;
\* and a call that returns a payload has compiled the messages its hook
\* returned, never the untransformed ones behind a promise
C21_ConfigurationErrorsAbort ==
  SyncEnded =>
    LET asyncHook == chefConfig.transformContext /\ last.returned = "promise"
    IN  /\ (~KnownTarget(last.target) \/ asyncHook) <=> last.outcome = "error"
        /\ last.outcome = "error" =>
             /\ last.payload = Payload(<<>>, Undefined, Undefined)
             /\ asyncHook => last.error = "transformContext is async"
        /\ last.transformCalls = (IF chefConfig.transformContext THEN 1 ELSE 0)
        /\ last.outcome = "payload" =>
             last.stitchIn = (IF chefConfig.transformContext
                              THEN last.expected ELSE last.sandwich)

\* a synchronous compile call on a history and a known target has thrown
\* because its transform hook returned a promise
C21_Witness ==
  /\ SyncEnded
  /\ chefConfig.transformContext
  /\ last.returned = "promise"
  /\ KnownTarget(last.target)
  /\ last.outcome = "error"
  /\ Len(last.sandwich) >= 2


----------------------------------------------------------------------------
(* clearRollingHistory: src/unnamed/part_015, lines 313-317 *)

\* the state a clearRollingHistory call leaves: the history empty, no hint
\* held and no cooldown pending
JustCleared ==
  /\ rollingHistory = <<>>
  /\ externalTokenUsage = Null
  /\ suppressNext = FALSE

\* the compress call of caller p found no hint, and if it compacted, the
\* local estimate of its history alone put it over the budget
DecidedOnLocalEstimate(p) ==
  /\ call[p].usage = Null
  /\ Fired(p) =>
       evaluateBudget(call[p].hist, Null, call[p].cooldown).split
         = call[p].split

----------------------------------------------------------------------------
(* snapshot() and restore(): src/unnamed/part_015, lines 328-357 *)

\* Janitor.snapshotState: the hint and the cooldown flag
JanitorSnapshotState ==
  [usage |-> externalTokenUsage, suppress |-> suppressNext]

\* Janitor.restoreState: the two fields it assigns
JanitorRestoreState(state) ==
  [usage |-> state.usage, suppress |-> state.suppress]

\* ContextChef.snapshot: copies of the three layers, the placement, the
\* injected text and the state of the Janitor
TakeSnapshot ==
  /\ snap' = [taken |-> TRUE, topLayer |-> topLayer,
              rollingHistory |-> rollingHistory,
              dynamicState |-> dynamicState,
              dynamicStatePlacement |-> dynamicStatePlacement,
              rawDynamicXml |-> rawDynamicXml,
              janitor |-> JanitorSnapshotState]
  /\ last' = NoLast
  /\ UNCHANGED <<config, externalTokenUsage, suppressNext, rollingHistory,
                 layers, call, chain, hintStale, chefConfig, pruner, pipe,
                 applied, cleared>>

\* a restore that leaves the placement and the injected text as they are
RestoreLayersOnly ==
  /\ snap.taken
  /\ topLayer' = snap.topLayer
  /\ rollingHistory' = snap.rollingHistory
  /\ dynamicState' = snap.dynamicState
  /\ externalTokenUsage' = JanitorRestoreState(snap.janitor).usage
  /\ suppressNext' = JanitorRestoreState(snap.janitor).suppress
  /\ chain' = NoChain
  /\ hintStale' = FALSE
  /\ cleared' = FALSE
  /\ last' = [NoLast EXCEPT !.outcome = "restored"]
  /\ UNCHANGED <<config, dynamicStatePlacement, rawDynamicXml, call,
                 chefConfig, pruner, pipe, applied, snap>>

\* ContextChef.restore, handed the snapshot the caller holds
Restore ==
  /\ snap.taken
  /\ topLayer' = snap.topLayer
  /\ rollingHistory' = snap.rollingHistory
  /\ dynamicState' = snap.dynamicState
  /\ dynamicStatePlacement' = snap.dynamicStatePlacement
  /\ rawDynamicXml' = snap.rawDynamicXml
  /\ externalTokenUsage' = JanitorRestoreState(snap.janitor).usage
  /\ suppressNext' = JanitorRestoreState(snap.janitor).suppress
  /\ chain' = NoChain
  /\ hintStale' = FALSE
  /\ cleared' = FALSE
  /\ last' = [NoLast EXCEPT !.outcome = "restored"]
  /\ UNCHANGED <<config, call, chefConfig, pruner, pipe, applied, snap>>

\* the histories of the caller that takes snapshots: none, and the full ones
\* of one message repeated
SnapHistories ==
  {h \in Histories :
     Len(h) \in {0, MaxLen} /\ \A i \in 1 .. Len(h) : h[i] = h[1]}

InitSnap ==
  /\ InitChef
  /\ config.preserveRecentTokens = Null
  /\ config.preserveRecentCount = Null

\* one caller that sets, feeds, clears, compiles, takes a snapshot and
\* restores it, and awaits each compile call before its next operation
NextSnap ==
  \/ Quiet /\ \E history \in SnapHistories : UseRollingHistory(history)
  \/ Quiet /\ \E tokenCount \in Hints : FeedTokenUsage(tokenCount)
  \/ Quiet /\ ClearRollingHistory
  \/ Quiet /\ \E messages \in {<<>>, <<SystemPrompt>>} : SetTopLayer(messages)
  \/ Quiet /\ \E placement \in {"system", "last_user"} :
                SetDynamicState(placement)
  \/ CompileStart(1)
  \/ \E p \in Callers : SummarizerResolves(p)
  \/ \E p \in Callers : OnCompressReturns(p)
  \/ \E p \in Callers : CompileReturn(p, "openai")
  \/ Quiet /\ TakeSnapshot
  \/ Quiet /\ Restore

SpecSnap == InitSnap /\ [][NextSnap]_vars

\* the state of the orchestrator that a snapshot holds
StateOfChef ==
  [taken |-> TRUE, topLayer |-> topLayer, rollingHistory |-> rollingHistory,
   dynamicState |-> dynamicState,
   dynamicStatePlacement |-> dynamicStatePlacement,
   rawDynamicXml |-> rawDynamicXml,
   janitor |-> [usage |-> externalTokenUsage, suppress |-> suppressNext]]

----------------------------------------------------------------------------
(* Successive compile calls on a history the caller leaves alone *)

\* caller 1 begins a compile call right after a compile call has returned its
\* payload, with no operation of the caller between the two
BeginsRightAfterReturn ==
  /\ last.outcome = "payload"
  /\ call[1].pc = "idle"
  /\ call'[1].pc # "idle"

\* the split index of a history, which no hint enters
SplitOf(history) ==
  IF TokenMode THEN TokenSplit(history) ELSE CountSplit(history)

\* the call fired compaction on the prefix of its history, and invoked the
\* summarizer, when there is one, on that prefix
FiredOnPrefix(c) ==
  /\ c.split # Null
  /\ c.split = SplitOf(c.hist)
  /\ config.compressionModel =>
       /\ c.sumCalls = 1
       /\ c.sumInput = ToCompress(c.hist, c.split) \o <<CompactionInstruction>>

\* the call was suppressed: it returned its history whole and invoked no
\* summarizer and no callback
Suppressed(c) ==
  /\ c.pc = "compressed" /\ c.skipped
  /\ c.split = Null /\ c.result = c.hist
  /\ c.sumCalls = 0 /\ c.cbCalls = 0

\* C24: compile never writes the compacted result back into the rolling
\* history, so on a history the caller leaves as it is the calls alternate:
\* a call that fires compaction emits the compacted history and leaves the
\* rolling history whole; the call right after it is suppressed and emits the
\* whole history; and the call right after that one, when the history is over
\* the budget, fires again on the same prefix and invokes the summarizer
\* again
C24_AlternatesOnUnchangedHistory ==
  /\ [](\A p \in Callers : Fired(p) => FiredOnPrefix(call[p]))
  /\ [](Compacted =>
          /\ rollingHistory = last.input
          /\ last.history = <<last.summary>>
               \o ToKeep(last.input, SplitOf(last.input))
          /\ last.messages = topLayer \o last.history \o dynamicState)
  /\ [](last.outcome = "payload" /\ ~Compacted =>
          /\ last.history = last.input
          /\ last.messages = topLayer \o last.input \o dynamicState)
  /\ [][BeginsRightAfterReturn /\ Compacted =>
          /\ call'[1].hist = last.input
          /\ Suppressed(call'[1])]_vars
  /\ [][/\ BeginsRightAfterReturn /\ ~Compacted /\ chain.pos = 2
        /\ evaluateBudget(rollingHistory, externalTokenUsage, FALSE).split
             # Null
        => /\ call'[1].hist = last.input
           /\ FiredOnPrefix(call'[1])]_vars

\* the third of three calls on one history has fired compaction again and
\* invoked the summarizer
C24_Witness ==
  \E p \in Callers :
    /\ Returned(p) /\ Fired(p)
    /\ call[p].pos = 2
    /\ call[p].hist = rollingHistory
    /\ call[p].sumCalls = 1


----------------------------------------------------------------------------
(* The cooldown on every call *)

\* C25: a compress call that begins while the cooldown flag is set, in either
\* budget mode and on any history, an empty one included, returns its input
\* unchanged, invokes neither summarizer nor callback and leaves the flag
\* cleared
C25_CooldownOnEveryCall ==
  \A p \in Callers :
    Returned(p) /\ call[p].cooldown =>
      /\ call[p].result = call[p].hist
      /\ call[p].sumCalls = 0
      /\ call[p].cbCalls = 0
      /\ ~suppressNext


----------------------------------------------------------------------------
(* A hook of compile() that throws or rejects: src/unnamed/part_015,
   lines 376 and 406, which no try block encloses *)

\* compile() rejects with the error of the hook caller p awaits: no later
\* step runs, and nothing the call has done is undone
Rejects(p) ==
  /\ last' = [outcome |-> "error", target |-> "none",
              summary |-> call[p].summary, input |-> call[p].hist,
              history |-> <<>>, messages |-> <<>>,
              run |-> [pipe[p] EXCEPT !.pc = "thrown"],
              stitchIn |-> <<>>, adapterIn |-> <<>>,
              payload |-> Payload(<<>>, Undefined, Undefined)]
  /\ call' = [call EXCEPT ![p] = IdleCall]
  /\ pipe' = [pipe EXCEPT ![p] = IdlePipe]
  /\ UNCHANGED <<config, externalTokenUsage, suppressNext, rollingHistory,
                 layers, chain, hintStale, chefConfig, pruner, applied, snap,
                 cleared>>

\* onBeforeCompile throws or rejects (line 376)
OnBeforeCompileThrows(p) ==
  /\ pipe[p].pc = "hook"
  /\ Rejects(p)

\* transformContext throws or rejects (line 406)
TransformThrows(p) ==
  /\ pipe[p].pc = "transform"
  /\ Rejects(p)

\* an orchestrator with at least one hook and no memory store
InitHooks ==
  /\ InitPipeline
  /\ chefConfig.onBeforeCompile \/ chefConfig.transformContext
  /\ chefConfig.memoryStore = "none"

\* one caller that sets its history, feeds token usage and compiles, and
\* awaits each compile call before its next operation; its hooks return or
\* throw
NextHooks ==
  \/ Quiet /\ \E history \in SnapHistories : UseRollingHistory(history)
  \/ Quiet /\ \E tokenCount \in Hints : FeedTokenUsage(tokenCount)
  \/ Quiet /\ \E placement \in {"system", "last_user"} :
                SetDynamicState(placement)
  \/ CompileStart(1)
  \/ \E p \in Callers : SummarizerResolves(p)
  \/ \E p \in Callers : SummarizerRejects(p)
  \/ \E p \in Callers : BeforeCompile(p)
  \/ \E p \in Callers, injected \in Injected :
       OnBeforeCompileReturns(p, injected)
  \/ \E p \in Callers : OnBeforeCompileThrows(p)
  \/ \E p \in Callers : MemoryRead(p, "openai")
  \/ \E p \in Callers, how \in Transforms : TransformReturns(p, how, "openai")
  \/ \E p \in Callers : TransformThrows(p)

SpecHooks == InitHooks /\ [][NextHooks]_vars

\* the compile call that just ended failed with the error of a hook
HookFailed ==
  /\ last.outcome = "error"
  /\ last.run.pc = "thrown"
  /\ last.run.steps[Len(last.run.steps)] \in {"hook", "transform"}

\* C26: when the pre-compile hook or the transform hook throws or rejects,
\* compile fails and returns no payload, and what the compaction step of the
\* same call did to the controller stays: the hint is cleared and the
\* cooldown flag is set, so that the next compile call, on the same history,
\* skips the compaction
C26_HookFailureNotRolledBack ==
  /\ [](HookFailed =>
          /\ last.payload = Payload(<<>>, Undefined, Undefined)
          /\ last.messages = <<>>
          /\ rollingHistory = last.input
          /\ last.summary # NoMsg =>
               externalTokenUsage = Null /\ suppressNext)
  /\ [][/\ HookFailed /\ last.summary # NoMsg
        /\ call[1].pc = "idle" /\ call'[1].pc # "idle"
        => /\ call'[1].hist = last.input
           /\ Suppressed(call'[1])]_vars

\* the transform hook failed in a call that had compacted on a fed hint,
\* after the pre-compile hook had returned
C26_Witness ==
  /\ HookFailed
  /\ last.summary # NoMsg
  /\ last.run.hookCalls = 1
  /\ last.run.transformCalls = 1
  /\ suppressNext


----------------------------------------------------------------------------
(* Overlapping compile calls on one ContextChef *)

\* two callers: each sets the history, feeds token usage or clears while no
\* call is in flight, and each begins a compile call whether or not the
\* other's is suspended
NextOverlap ==
  \/ Quiet /\ \E history \in SnapHistories : UseRollingHistory(history)
  \/ Quiet /\ \E tokenCount \in Hints : FeedTokenUsage(tokenCount)
  \/ Quiet /\ ClearRollingHistory
  \/ Quiet /\ \E messages \in {<<>>, <<SystemPrompt>>} : SetTopLayer(messages)
  \/ Quiet /\ \E placement \in {"system", "last_user"} :
                SetDynamicState(placement)
  \/ \E p \in Callers : Begin(p)
  \/ \E p \in Callers : SummarizerResolves(p)
  \/ \E p \in Callers : SummarizerRejects(p)
  \/ \E p \in Callers : OnCompressReturns(p)
  \/ \E p \in Callers, target \in Targets : CompileReturn(p, target)

SpecOverlap == InitChef /\ [][NextOverlap]_vars

\* the compress call of caller p is suspended in its compaction
Suspended(p) == call[p].pc \in {"summarizing", "callback"}

\* caller q begins a compile call
Begins(q) == call[q].pc = "idle" /\ call'[q].pc # "idle"

----------------------------------------------------------------------------
(* A caller that keeps what compress returns: count mode *)

\* the caller hands the history of the payload it just got back to
\* useRollingHistory
UseCompressResult ==
  /\ last.outcome = "payload"
  /\ UseRollingHistory(last.history)

\* one caller in count mode: it sets its history once, compiles, and replaces
\* its history with the result of each compile call before the next one
NextAdopt ==
  \/ Quiet /\ rollingHistory = <<>> /\ last.outcome # "payload"
       /\ \E history \in Histories : UseRollingHistory(history)
  \/ last.outcome # "payload" /\ CompileStart(1)
  \/ \E p \in Callers : SummarizerResolves(p)
  \/ \E p \in Callers : SummarizerRejects(p)
  \/ \E p \in Callers : OnCompressReturns(p)
  \/ \E p \in Callers : CompileReturn(p, "openai")
  \/ Quiet /\ UseCompressResult

InitAdopt == Init /\ config \in CountConfigs

SpecAdopt == InitAdopt /\ [][NextAdopt]_vars

\* the history begins with the summary of an earlier compaction
HasSummary(history) ==
  Len(history) > 0 /\ history[1].kind \in {"model", "fallback"}

\* for the compress call c of a caller that keeps each result: a compaction
\* fires only on a history no compaction has produced, its result has at
\* most maxHistoryLimit messages, and a call on a compacted history returns
\* it unchanged
Converges(c) ==
  /\ c.split # Null => ~HasSummary(c.hist)
  /\ c.pc = "compressed" /\ c.split # Null =>
       Len(c.result) <= config.maxHistoryLimit
  /\ c.pc # "idle" /\ HasSummary(c.hist) =>
       c.pc = "compressed" /\ c.result = c.hist

\* C28: in count mode, for every max_messages and preserve_count, a caller
\* that replaces its history with each compress result and appends nothing
\* sees compaction fire at most once; after it has fired the history has at
\* most max_messages messages and every later call returns its input
\* unchanged
C28_ConvergesInCountMode == \A p \in Callers : Converges(call[p])

\* C28 amended: a compaction in count mode returns 1 + preserve_count
\* messages; when preserve_count < max_messages (the default of 70% is) that
\* is at most max_messages, compaction fires at most once and every later
\* call returns its input unchanged; when preserve_count >= max_messages the
\* result is longer than max_messages
C28_ConvergesWhenPreserveBelowMax ==
  \A p \in Callers :
    /\ Returned(p) /\ Fired(p) => Len(call[p].result) = 1 + PreserveCount
    /\ PreserveCount < config.maxHistoryLimit => Converges(call[p])
    /\ Returned(p) /\ Fired(p) /\ PreserveCount >= config.maxHistoryLimit =>
         Len(call[p].result) > config.maxHistoryLimit

\* the second call after a compaction, no longer suppressed, has returned
\* the compacted history unchanged
C28_Witness ==
  \E p \in Callers :
    /\ Returned(p)
    /\ HasSummary(call[p].hist)
    /\ ~call[p].cooldown
    /\ call[p].result = call[p].hist
    /\ PreserveCount < config.maxHistoryLimit


----------------------------------------------------------------------------
(* The last turn of the OpenAI payload *)

\* C29: for every input sequence, the ones that end with two or more plain
\* assistant turns included, the last message of the OpenAI payload is not
\* an assistant turn without tool calls
C29_NoTrailingPlainAssistant ==
  applied.fn = "OpenAIAdapter.compile" /\ applied.out.messages # <<>> =>
    ~PrefillTurn(applied.out.messages[Len(applied.out.messages)])


----------------------------------------------------------------------------
(* The place of the cache marker among the keys of a canonical message *)

\* the place of a key among the keys of an object
IndexOf(keys, key) == CHOOSE i \in 1..Len(keys) : keys[i] = key

\* C30: canonicalization leaves the _cache_breakpoint key of a message at the
\* place it had among the keys of the message, and sorts all other keys in
\* ascending order
C30_CacheBreakpointKeepsPosition ==
  applied.fn = "orderKeysDeterministically"
  /\ Has(applied.m1, "_cache_breakpoint")
  => LET in     == Keys(applied.m1)
         out    == Keys(applied.out1)
         others == SelectSeq(in, LAMBDA k : k # "_cache_breakpoint")
     IN  /\ IndexOf(out, "_cache_breakpoint")
              = IndexOf(in, "_cache_breakpoint")
         /\ SelectSeq(out, LAMBDA k : k # "_cache_breakpoint")
              = SortKeys(others)

=============================================================================
